---- MODULE Spec2Model ----
(***************************************************************************)
(* daniengine: the particle pool (src/src/particles/mod.rs).               *)
(*                                                                         *)
(* Number model.                                                           *)
(*  - rng_state is a u32.  It is kept as a pair <<hi, lo>> of 16-bit limbs *)
(*    (value hi * 2^16 + lo) so that the wrapping product and sum are      *)
(*    computed with their full 32-bit width.                               *)
(*  - The f32 returned by rand_f32 is kept exactly, as the numerator       *)
(*    <<hi, lo>> of a fraction over 2^32, hi in 0..65536: the u32 -> f32   *)
(*    cast rounds to a 24-bit significand (ties to even), and the divisor  *)
(*    u32::MAX as f32 + 1.0 is exactly 2^32.                               *)
(*  - Every other f32 (positions, velocities, lifetimes, sizes, dt, ...)   *)
(*    is an integer number of grid units; a product with the uniform draw  *)
(*    is rounded down to the grid.  Angles are in quarter turns (pi/2), on *)
(*    which cos and sin are exact.  Slots are numbered from 1.             *)
(*                                                                         *)
(* pools maps a pool id to a ParticleSystem value, hist to the calls that  *)
(* pool has received, canvas to the fill_rect calls issued by its most     *)
(* recent draw or draw_additive.  body is the host's bouncing square, in   *)
(* quarter pixels and steps of 1/60 s; app is the rest of the host's App   *)
(* (its Input and switches) and the state of its event loop.               *)
(***************************************************************************)
EXTENDS Integers, Sequences, FiniteSets, TLC

VARIABLES pools, hist, canvas, body, app

vars == <<pools, hist, canvas, body, app>>

(* ------------------------------ bounds --------------------------------- *)

Capacity == 2

MaxCalls == 4

MaxFrames == 4

(* ------------------------- 32-bit arithmetic --------------------------- *)

Limb == 256 * 256

LCG_MUL == <<25, 26125>>

LCG_ADD == <<15470, 62303>>

SEED == <<4660, 43981>>

wrapping_mul(x, k) ==
    LET low  == x[2] * k[2]
        high == ((x[1] * k[2]) % Limb) + ((x[2] * k[1]) % Limb) + (low \div Limb)
    IN  <<high % Limb, low % Limb>>

wrapping_add(x, c) ==
    LET low  == x[2] + c[2]
        high == x[1] + c[1] + (low \div Limb)
    IN  <<high % Limb, low % Limb>>

(* Faulty variant of rand_u32: returns the state it started from.          *)
rand_u32_old(state) ==
    LET n == wrapping_add(wrapping_mul(state, LCG_MUL), LCG_ADD)
    IN  [state |-> n, ret |-> state]

rand_u32(state) ==
    LET n == wrapping_add(wrapping_mul(state, LCG_MUL), LCG_ADD)
    IN  [state |-> n, ret |-> n]

RECURSIVE BitLen(_)
BitLen(n) == IF n = 0 THEN 0 ELSE 1 + BitLen(n \div 2)

RECURSIVE Pow2(_)
Pow2(n) == IF n = 0 THEN 1 ELSE 2 * Pow2(n - 1)

u32_as_f32(x) ==
    IF x[1] < 256 THEN x
    ELSE LET q    == Pow2(BitLen(x[1]) - 8)
             rem  == x[2] % q
             base == x[2] - rem
             up   == \/ 2 * rem > q
                     \/ 2 * rem = q /\ ((base \div q) % 2) = 1
             low  == IF up THEN base + q ELSE base
         IN  IF low = Limb THEN <<x[1] + 1, 0>> ELSE <<x[1], low>>

rand_f32(state) ==
    LET r == rand_u32(state)
    IN  [state |-> r.state, ret |-> u32_as_f32(r.ret)]

MulF(w, u) == (w * u[1] + ((w * u[2]) \div Limb)) \div Limb

rand_between(state, a, b) ==
    LET r == rand_f32(state)
    IN  [state |-> r.state, ret |-> a + MulF(b - a, r.ret)]

(* ------------------------------ the pool ------------------------------- *)

COS(d) == <<1, 0, -1, 0>>[(d % 4) + 1]

SIN(d) == <<0, 1, 0, -1>>[(d % 4) + 1]

Particle0 ==
    [pos |-> <<0, 0>>, vel |-> <<0, 0>>, life |-> 0, life_total |-> 0,
     size |-> 0, start_color |-> <<255, 255, 255, 255>>,
     end_color |-> <<0, 0, 255, 255>>, alive |-> FALSE]

(* Faulty variant of new: one slot more than asked for.                    *)
new_spare(capacity) ==
    [particles |-> [i \in 1..(capacity + 1) |-> Particle0],
     gravity   |-> <<0, 300>>,
     rng_state |-> SEED]

new(capacity) ==
    [particles |-> [i \in 1..capacity |-> Particle0],
     gravity   |-> <<0, 300>>,
     rng_state |-> SEED]

(* Faulty variant of set_gravity: the components are exchanged.            *)
set_gravity_swapped(self, gx, gy) == [self EXCEPT !.gravity = <<gy, gx>>]

set_gravity(self, gx, gy) == [self EXCEPT !.gravity = <<gx, gy>>]

Abs(x) == IF x < 0 THEN -x ELSE x

TruncDiv(n, d) == IF (n < 0) = (d < 0) THEN Abs(n) \div Abs(d) ELSE -(Abs(n) \div Abs(d))

Isqrt(n) == CHOOSE k \in 0..n : k * k <= n /\ (k + 1) * (k + 1) > n

Max(a, b) == IF a >= b THEN a ELSE b

Min(a, b) == IF a <= b THEN a ELSE b

(* The velocity change dx * inv_d * strength * falloff * dt is             *)
(* dx * strength * (r2 - d2) * dt / (r2 * sqrt(d2)); on the grid the root  *)
(* and the quotient are truncated.  A non-zero grid distance is >= 1, so   *)
(* the 1e-3 floor of d2.sqrt().max(1e-3) never binds.                      *)
well_particle(p, center, strength, radius, dt) ==
    LET r2 == radius * radius
        dx == center[1] - p.pos[1]
        dy == center[2] - p.pos[2]
        d2 == dx * dx + dy * dy
    IN  IF ~p.alive THEN p
        ELSE IF d2 > r2 \/ d2 = 0 THEN p
        ELSE LET d  == Max(Isqrt(d2), 1)
                 ax == TruncDiv(dx * strength * (r2 - d2) * dt, r2 * d)
                 ay == TruncDiv(dy * strength * (r2 - d2) * dt, r2 * d)
             IN  [p EXCEPT !.vel = <<p.vel[1] + ax, p.vel[2] + ay>>]

apply_gravity_well(self, center, strength, radius, dt) ==
    [self EXCEPT !.particles =
        [i \in DOMAIN self.particles |->
            well_particle(self.particles[i], center, strength, radius, dt)]]

(* Faulty variant of alloc_slot_index: the highest inert slot is taken.    *)
alloc_slot_index_last(self) ==
    LET free == {i \in DOMAIN self.particles : ~self.particles[i].alive}
    IN  IF free = {} THEN 0
        ELSE CHOOSE i \in free : \A j \in free : i >= j

alloc_slot_index(self) ==
    LET free == {i \in DOMAIN self.particles : ~self.particles[i].alive}
    IN  IF free = {} THEN 0
        ELSE CHOOSE i \in free : \A j \in free : i <= j

(* Faulty variant of emit_one: the lifetime is drawn before the speed.     *)
emit_one_swapped(self, i, pos, config) ==
    LET r1   == rand_between(self.rng_state, -config.spread_radians, config.spread_radians)
        dir  == config.base_direction + r1.ret
        r2   == rand_between(r1.state, config.life_min, config.life_max)
        life == r2.ret
        r3   == rand_between(r2.state, config.speed_min, config.speed_max)
        spd  == r3.ret
        r4   == rand_between(r3.state, config.size_min, config.size_max)
        size == r4.ret
    IN  [self EXCEPT
            !.rng_state = r4.state,
            !.particles[i] =
                [pos |-> pos, vel |-> <<COS(dir) * spd, SIN(dir) * spd>>,
                 life |-> life, life_total |-> life, size |-> size,
                 start_color |-> config.start_color,
                 end_color |-> config.end_color, alive |-> TRUE]]

emit_one(self, i, pos, config) ==
    LET r1   == rand_between(self.rng_state, -config.spread_radians, config.spread_radians)
        dir  == config.base_direction + r1.ret
        r2   == rand_between(r1.state, config.speed_min, config.speed_max)
        spd  == r2.ret
        r3   == rand_between(r2.state, config.life_min, config.life_max)
        life == r3.ret
        r4   == rand_between(r3.state, config.size_min, config.size_max)
        size == r4.ret
    IN  [self EXCEPT
            !.rng_state = r4.state,
            !.particles[i] =
                [pos |-> pos, vel |-> <<COS(dir) * spd, SIN(dir) * spd>>,
                 life |-> life, life_total |-> life, size |-> size,
                 start_color |-> config.start_color,
                 end_color |-> config.end_color, alive |-> TRUE]]

(* Faulty variant of emit_loop: a full pool grows by one slot.             *)
RECURSIVE emit_loop_grow(_, _, _, _)
emit_loop_grow(self, pos, config, n) ==
    IF n = 0 THEN self
    ELSE LET i    == alloc_slot_index(self)
             more == [self EXCEPT !.particles = Append(@, Particle0)]
         IN  IF i = 0
             THEN emit_loop_grow(emit_one(more, Len(more.particles), pos, config),
                                 pos, config, n - 1)
             ELSE emit_loop_grow(emit_one(self, i, pos, config), pos, config, n - 1)

RECURSIVE emit_loop(_, _, _, _)
emit_loop(self, pos, config, n) ==
    IF n = 0 THEN self
    ELSE LET i == alloc_slot_index(self)
         IN  IF i = 0 THEN self
             ELSE emit_loop(emit_one(self, i, pos, config), pos, config, n - 1)

(* Faulty variant of emit_burst: the loop runs over 0..=count.             *)
emit_burst_inclusive(self, pos, config) == emit_loop(self, pos, config, config.count + 1)

emit_burst(self, pos, config) == emit_loop(self, pos, config, config.count)

(* Faulty variants of update_particle: death at life <= 1, death only at   *)
(* life < 0, and a lifetime that is incremented.                           *)
update_particle_early(p, gravity, dt) ==
    IF ~p.alive THEN p
    ELSE LET vx   == p.vel[1] + gravity[1] * dt
             vy   == p.vel[2] + gravity[2] * dt
             life == p.life - dt
         IN  [p EXCEPT !.vel = <<vx, vy>>,
                       !.pos = <<p.pos[1] + vx * dt, p.pos[2] + vy * dt>>,
                       !.life = life,
                       !.alive = ~(life <= 1)]

update_particle_late(p, gravity, dt) ==
    IF ~p.alive THEN p
    ELSE LET vx   == p.vel[1] + gravity[1] * dt
             vy   == p.vel[2] + gravity[2] * dt
             life == p.life - dt
         IN  [p EXCEPT !.vel = <<vx, vy>>,
                       !.pos = <<p.pos[1] + vx * dt, p.pos[2] + vy * dt>>,
                       !.life = life,
                       !.alive = ~(life < 0)]

update_particle_add(p, gravity, dt) ==
    IF ~p.alive THEN p
    ELSE LET vx   == p.vel[1] + gravity[1] * dt
             vy   == p.vel[2] + gravity[2] * dt
             life == p.life + dt
         IN  [p EXCEPT !.vel = <<vx, vy>>,
                       !.pos = <<p.pos[1] + vx * dt, p.pos[2] + vy * dt>>,
                       !.life = life,
                       !.alive = ~(life <= 0)]

(* Faulty variant of update_particle: inert slots are integrated too.      *)
update_particle_noskip(p, gravity, dt) ==
    LET vx   == p.vel[1] + gravity[1] * dt
        vy   == p.vel[2] + gravity[2] * dt
        life == p.life - dt
    IN  [p EXCEPT !.vel = <<vx, vy>>,
                  !.pos = <<p.pos[1] + vx * dt, p.pos[2] + vy * dt>>,
                  !.life = life,
                  !.alive = p.alive /\ ~(life <= 0)]

(* Faulty variant of update_particle: the position advances by the        *)
(* velocity of before the call.                                            *)
update_particle_posfirst(p, gravity, dt) ==
    IF ~p.alive THEN p
    ELSE LET vx   == p.vel[1] + gravity[1] * dt
             vy   == p.vel[2] + gravity[2] * dt
             life == p.life - dt
         IN  [p EXCEPT !.vel = <<vx, vy>>,
                       !.pos = <<p.pos[1] + p.vel[1] * dt, p.pos[2] + p.vel[2] * dt>>,
                       !.life = life,
                       !.alive = ~(life <= 0)]

update_particle(p, gravity, dt) ==
    IF ~p.alive THEN p
    ELSE LET vx   == p.vel[1] + gravity[1] * dt
             vy   == p.vel[2] + gravity[2] * dt
             life == p.life - dt
         IN  [p EXCEPT !.vel = <<vx, vy>>,
                       !.pos = <<p.pos[1] + vx * dt, p.pos[2] + vy * dt>>,
                       !.life = life,
                       !.alive = ~(life <= 0)]

(* Faulty variant of update: every call draws from the generator.         *)
update_drawing(self, dt) ==
    [self EXCEPT !.rng_state = rand_u32(self.rng_state).state,
                 !.particles =
        [i \in DOMAIN self.particles |->
            update_particle(self.particles[i], self.gravity, dt)]]

update(self, dt) ==
    [self EXCEPT !.particles =
        [i \in DOMAIN self.particles |->
            update_particle(self.particles[i], self.gravity, dt)]]

(* collide_rect is called by the host (examples/particles.rs) but has no   *)
(* body in src/src/particles/mod.rs; it follows section 4.1 of the         *)
(* specification.  rect is <<x, y, w, h>>, restitution a fraction          *)
(* <<num, den>>; a particle strictly inside the rectangle has penetrated   *)
(* through the boundary it is nearest to (left, right, top, bottom in that *)
(* order on a tie), and the scaled velocity is rounded toward zero.        *)
PenetratedEdge(p, rect) ==
    LET left   == p.pos[1] - rect[1]
        right  == rect[1] + rect[3] - p.pos[1]
        top    == p.pos[2] - rect[2]
        bottom == rect[2] + rect[4] - p.pos[2]
        m      == Min(Min(left, right), Min(top, bottom))
    IN  IF ~(left > 0 /\ right > 0 /\ top > 0 /\ bottom > 0) THEN "none"
        ELSE IF left = m THEN "left"
        ELSE IF right = m THEN "right"
        ELSE IF top = m THEN "top"
        ELSE "bottom"

(* Faulty variant of collide_particle: the velocity keeps its sign.        *)
collide_particle_noflip(p, rect, restitution) ==
    IF ~p.alive THEN p
    ELSE LET edge == PenetratedEdge(p, rect)
             bx   == TruncDiv(p.vel[1] * restitution[1], restitution[2])
             by   == TruncDiv(p.vel[2] * restitution[1], restitution[2])
         IN  CASE edge = "left"   ->
                    [p EXCEPT !.pos = <<rect[1], p.pos[2]>>, !.vel = <<bx, p.vel[2]>>]
               [] edge = "right"  ->
                    [p EXCEPT !.pos = <<rect[1] + rect[3], p.pos[2]>>,
                              !.vel = <<bx, p.vel[2]>>]
               [] edge = "top"    ->
                    [p EXCEPT !.pos = <<p.pos[1], rect[2]>>, !.vel = <<p.vel[1], by>>]
               [] edge = "bottom" ->
                    [p EXCEPT !.pos = <<p.pos[1], rect[2] + rect[4]>>,
                              !.vel = <<p.vel[1], by>>]
               [] OTHER           -> p

collide_particle(p, rect, restitution) ==
    IF ~p.alive THEN p
    ELSE LET edge == PenetratedEdge(p, rect)
             bx   == TruncDiv(-p.vel[1] * restitution[1], restitution[2])
             by   == TruncDiv(-p.vel[2] * restitution[1], restitution[2])
         IN  CASE edge = "left"   ->
                    [p EXCEPT !.pos = <<rect[1], p.pos[2]>>, !.vel = <<bx, p.vel[2]>>]
               [] edge = "right"  ->
                    [p EXCEPT !.pos = <<rect[1] + rect[3], p.pos[2]>>,
                              !.vel = <<bx, p.vel[2]>>]
               [] edge = "top"    ->
                    [p EXCEPT !.pos = <<p.pos[1], rect[2]>>, !.vel = <<p.vel[1], by>>]
               [] edge = "bottom" ->
                    [p EXCEPT !.pos = <<p.pos[1], rect[2] + rect[4]>>,
                              !.vel = <<p.vel[1], by>>]
               [] OTHER           -> p

collide_rect(self, rect, restitution) ==
    [self EXCEPT !.particles =
        [i \in DOMAIN self.particles |->
            collide_particle(self.particles[i], rect, restitution)]]

(* ------------------------------- drawing ------------------------------- *)

(* An f32 coordinate or size is a fraction <<num, den>> with den > 0.       *)
F(n) == <<n, 1>>

(* Faulty variant of round: the fraction is cut off towards zero.          *)
round_trunc(x) == TruncDiv(x[1], x[2])

(* f32::round: the nearest integer, a half rounding away from zero.        *)
round(x) ==
    IF x[1] >= 0 THEN (2 * x[1] + x[2]) \div (2 * x[2])
    ELSE -((2 * (-x[1]) + x[2]) \div (2 * x[2]))

(* f32::max of two fractions.                                              *)
fmax(x, y) == IF x[1] * y[2] >= y[1] * x[2] THEN x ELSE y

(* The calls of the integer fill_rect that one fill_rect_f32 makes.        *)
fill_rect_f32(x, y, w, h, color) ==
    LET xi == round(x)
        yi == round(y)
        wi == round(fmax(w, F(1)))
        hi == round(fmax(h, F(1)))
    IN  <<[x |-> xi, y |-> yi, w |-> wi, h |-> hi, color |-> color]>>

(* t = (life / life_total).clamp(0.0, 1.0) as a fraction <<num, den>>,     *)
(* den > 0; <<0, 0>> stands for NaN (0.0 / 0.0).                           *)
life_fraction(p) ==
    IF p.life_total = 0
    THEN IF p.life = 0 THEN <<0, 0>> ELSE IF p.life > 0 THEN <<1, 1>> ELSE <<0, 1>>
    ELSE LET num == IF p.life_total < 0 THEN -p.life ELSE p.life
             den == Abs(p.life_total)
         IN  IF num <= 0 THEN <<0, 1>> ELSE IF num >= den THEN <<1, 1>> ELSE <<num, den>>

(* Faulty variant of lerp_u8: the interpolation runs from end to start.    *)
lerp_u8_reversed(s, e, t) ==
    IF t[2] = 0 THEN 0 ELSE s + (((e - s) * t[1]) \div t[2])

(* (s + (e - s) * (1 - t)) as u8: the cast truncates, and NaN casts to 0.  *)
lerp_u8(s, e, t) ==
    IF t[2] = 0 THEN 0 ELSE s + (((e - s) * (t[2] - t[1])) \div t[2])

(* Faulty variant of lerp_boost_u8: the boosted value wraps at 256.        *)
lerp_boost_u8_wrapping(s, e, t) ==
    IF t[2] = 0 THEN 255
    ELSE ((3 * (s * t[2] + (e - s) * (t[2] - t[1]))) \div (2 * t[2])) % 256

(* ((s + (e - s) * (1 - t)) * 1.5).min(255.0) as u8                        *)
lerp_boost_u8(s, e, t) ==
    IF t[2] = 0 THEN 255
    ELSE Min(255, (3 * (s * t[2] + (e - s) * (t[2] - t[1]))) \div (2 * t[2]))

draw_color(p) ==
    LET t == life_fraction(p)
    IN  [k \in 1..4 |-> lerp_u8(p.start_color[k], p.end_color[k], t)]

draw_additive_color(p) ==
    LET t == life_fraction(p)
    IN  [k \in 1..4 |->
            IF k = 4 THEN lerp_u8(p.start_color[k], p.end_color[k], t)
            ELSE lerp_boost_u8(p.start_color[k], p.end_color[k], t)]

(* Faulty variant of draw_slots: the slots are visited from the last to    *)
(* the first.                                                              *)
RECURSIVE draw_slots_reversed(_, _, _)
draw_slots_reversed(self, lo, hi) ==
    IF lo > hi THEN <<>>
    ELSE IF lo = hi
    THEN LET p == self.particles[lo]
         IN  IF ~p.alive THEN <<>>
             ELSE fill_rect_f32(F(p.pos[1]), F(p.pos[2]), F(p.size), F(p.size),
                                draw_color(p))
    ELSE LET mid == (lo + hi) \div 2
         IN  draw_slots_reversed(self, mid + 1, hi) \o draw_slots_reversed(self, lo, mid)

(* for p in &self.particles { if !p.alive { continue; } ... fill ... }:     *)
(* the fills of slots lo..hi in slot order, the range being split in two   *)
(* so that the evaluation depth stays logarithmic in the capacity.         *)
RECURSIVE draw_slots(_, _, _)
draw_slots(self, lo, hi) ==
    IF lo > hi THEN <<>>
    ELSE IF lo = hi
    THEN LET p == self.particles[lo]
         IN  IF ~p.alive THEN <<>>
             ELSE fill_rect_f32(F(p.pos[1]), F(p.pos[2]), F(p.size), F(p.size),
                                draw_color(p))
    ELSE LET mid == (lo + hi) \div 2
         IN  draw_slots(self, lo, mid) \o draw_slots(self, mid + 1, hi)

draw(self) == draw_slots(self, 1, Len(self.particles))

RECURSIVE draw_additive_slots(_, _, _)
draw_additive_slots(self, lo, hi) ==
    IF lo > hi THEN <<>>
    ELSE IF lo = hi
    THEN LET p == self.particles[lo]
         IN  IF ~p.alive THEN <<>>
             ELSE fill_rect_f32(F(p.pos[1]), F(p.pos[2]), F(p.size), F(p.size),
                                draw_additive_color(p))
    ELSE LET mid == (lo + hi) \div 2
         IN  draw_additive_slots(self, lo, mid) \o draw_additive_slots(self, mid + 1, hi)

draw_additive(self) == draw_additive_slots(self, 1, Len(self.particles))

(* ------------------------------ inputs --------------------------------- *)

Yellow == <<255, 255, 0, 255>>

Blue == <<0, 10, 255, 255>>

Configs ==
    { [count |-> 1, speed_min |-> 1, speed_max |-> 3, spread_radians |-> 1,
       base_direction |-> -1, life_min |-> 2, life_max |-> 4,
       size_min |-> 2, size_max |-> 4, start_color |-> Yellow, end_color |-> Blue],
      [count |-> Capacity + 1, speed_min |-> 2, speed_max |-> 2, spread_radians |-> 2,
       base_direction |-> 0, life_min |-> 1, life_max |-> 3,
       size_min |-> 1, size_max |-> 1, start_color |-> Blue, end_color |-> Yellow],
      [count |-> 2, speed_min |-> 0, speed_max |-> 4, spread_radians |-> 0,
       base_direction |-> 1, life_min |-> 0, life_max |-> 0,
       size_min |-> 0, size_max |-> 2, start_color |-> Yellow, end_color |-> Blue],
      [count |-> 0, speed_min |-> 1, speed_max |-> 3, spread_radians |-> 1,
       base_direction |-> -1, life_min |-> 2, life_max |-> 4,
       size_min |-> 2, size_max |-> 4, start_color |-> Yellow, end_color |-> Blue] }

Origin(config) == IF config.spread_radians = 0 THEN <<2, 1>> ELSE <<0, 0>>

Dts == { -1, 0, 1, 2 }

Gravities == { <<0, 0>>, <<1, 0>> }

Wells ==
    { [center |-> <<2, 0>>, strength |-> 6, radius |-> 3, dt |-> 1],
      [center |-> <<2, 0>>, strength |-> 6, radius |-> -3, dt |-> 1],
      [center |-> <<0, 0>>, strength |-> 6, radius |-> 0, dt |-> 1],
      [center |-> <<0, 3>>, strength |-> 6, radius |-> 3, dt |-> 2],
      [center |-> <<2, 0>>, strength |-> 0, radius |-> 3, dt |-> 1] }

(* --------------------- the host's bouncing square ---------------------- *)
(* Lengths are in quarter pixels and times in steps of 1/60 s, on which    *)
(* the hosts' velocity (60, 45) px/s is (4, 3) and the playground's input  *)
(* speed of 120 px/s is 8.  moved is the position after the integration    *)
(* and before the clamp of the most recent frame.                          *)

CanvasSize == <<1280, 720>>

Speed == 8

ParticlesBody ==
    [host |-> "particles", pos |-> <<160, 160>>, vel |-> <<4, 3>>, size |-> 72,
     moved |-> <<160, 160>>, frames |-> 0]

PlaygroundBody ==
    [host |-> "playground", pos |-> <<160, 160>>, vel |-> <<4, 3>>, size |-> 40,
     moved |-> <<160, 160>>, frames |-> 0]

(* Faulty variant of bounce_axis: the velocity is negated at an edge.      *)
bounce_axis_negate(pos, vel, s, w) ==
    LET p1 == IF pos <= 0 THEN 0 ELSE pos
        v1 == IF pos <= 0 THEN -vel ELSE vel
    IN  IF p1 + s >= w THEN <<w - s, -v1>> ELSE <<p1, v1>>

(* if pos <= 0.0 { pos = 0.0; vel = vel.abs(); }                           *)
(* if pos + s >= w { pos = w - s; vel = -vel.abs(); }                      *)
bounce_axis(pos, vel, s, w) ==
    LET p1 == IF pos <= 0 THEN 0 ELSE pos
        v1 == IF pos <= 0 THEN Abs(vel) ELSE vel
    IN  IF p1 + s >= w THEN <<w - s, -Abs(v1)>> ELSE <<p1, v1>>

bounce(b, moved) ==
    LET x == bounce_axis(moved[1], b.vel[1], b.size, CanvasSize[1])
        y == bounce_axis(moved[2], b.vel[2], b.size, CanvasSize[2])
    IN  [b EXCEPT !.pos = <<x[1], y[1]>>, !.vel = <<x[2], y[2]>>,
                  !.moved = moved, !.frames = @ + 1]

(* examples/particles.rs: pos += vel * dt, then the bounce.                *)
particles_frame(b, dt) ==
    bounce(b, <<b.pos[1] + b.vel[1] * dt, b.pos[2] + b.vel[2] * dt>>)

(* examples/playground.rs: pos += input * speed / 60, Body::update(1/60),  *)
(* then the bounce.                                                        *)
playground_step(b, input) ==
    bounce(b, <<b.pos[1] + input[1] * Speed + b.vel[1],
                b.pos[2] + input[2] * Speed + b.vel[2]>>)

(* ------------------------- input (src/src/input) ------------------------ *)
(* Key and button sets of Input; mouse_pos is in canvas pixels.  The wheel *)
(* and the mouse delta, which no modelled query reads, and the axes are    *)
(* left out.  A window event is a record with a kind; a KeyboardInput      *)
(* whose virtual_keycode is "None" carries no key.                         *)

input_new ==
    [pressed_now |-> {}, pressed_prev |-> {},
     mouse_pressed_now |-> {}, mouse_pressed_prev |-> {},
     mouse_pos |-> <<0, 0>>, actions |-> <<>>]

(* Faulty variant of begin_frame: the previous sets are not refreshed.     *)
begin_frame_stale(self) == self

begin_frame(self) ==
    [self EXCEPT !.pressed_prev = self.pressed_now,
                 !.mouse_pressed_prev = self.mouse_pressed_now]

handle_window_event(self, e) ==
    CASE e.kind = "KeyboardInput" ->
             IF e.virtual_keycode = "None" THEN self
             ELSE IF e.state = "Pressed"
             THEN [self EXCEPT !.pressed_now = @ \cup {e.virtual_keycode}]
             ELSE [self EXCEPT !.pressed_now = @ \ {e.virtual_keycode}]
      [] e.kind = "MouseInput" ->
             IF e.state = "Pressed"
             THEN [self EXCEPT !.mouse_pressed_now = @ \cup {e.button}]
             ELSE [self EXCEPT !.mouse_pressed_now = @ \ {e.button}]
      [] OTHER -> self

pressed(self, key) == key \in self.pressed_now

just_pressed(self, key) == key \in self.pressed_now /\ key \notin self.pressed_prev

just_released(self, key) == key \notin self.pressed_now /\ key \in self.pressed_prev

mouse_pressed(self, b) == b \in self.mouse_pressed_now

mouse_clicked(self, b) == b \in self.mouse_pressed_prev /\ b \notin self.mouse_pressed_now

chord(key, mods) == [key |-> key, mods |-> mods]

bind_action(self, name, c) ==
    [self EXCEPT !.actions =
        IF name \in DOMAIN self.actions
        THEN [self.actions EXCEPT ![name] = Append(@, c)]
        ELSE self.actions @@ (name :> <<c>>)]

action_just_pressed(self, name, mods) ==
    IF name \in DOMAIN self.actions
    THEN \E n \in DOMAIN self.actions[name] :
             LET c == self.actions[name][n]
             IN  just_pressed(self, c.key) /\ (c.mods = {} \/ c.mods = mods)
    ELSE FALSE

(* ------------------- the host (examples/particles.rs) ------------------- *)
(* App::new: the key bindings and the switches.  The pool and the square   *)
(* of the App are pools[1] and body.  phase tells which event the loop     *)
(* delivers next, handled whether the frame has had its window event,      *)
(* present the outcome of the latest canvas.present().                     *)

AppInput ==
    bind_action(bind_action(bind_action(bind_action(bind_action(input_new,
        "quit", chord("Escape", {})),
        "toggle_fountain", chord("F", {})),
        "reset_particles", chord("R", {})),
        "toggle_additive", chord("A", {})),
        "toggle_well", chord("G", {}))

AppNew ==
    [input |-> AppInput, additive |-> FALSE, fountain |-> FALSE, well_active |-> FALSE,
     ui_click_consumed |-> FALSE, control_flow |-> "Poll", phase |-> "NewEvents",
     handled |-> FALSE, present |-> "none", render |-> "none"]

(* ------------------------------ actions -------------------------------- *)

(* Faulty variant of Self: one generator state shared by every pool.       *)
SelfSharedRng(ps, id) == [ps[id] EXCEPT !.rng_state = ps[1].rng_state]

Self(ps, id) == ps[id]

Apply(self, c) ==
    CASE c.op = "emit_burst"         -> emit_burst(self, c.pos, c.config)
      [] c.op = "update"             -> update(self, c.dt)
      [] c.op = "apply_gravity_well" ->
             apply_gravity_well(self, c.center, c.strength, c.radius, c.dt)
      [] c.op = "set_gravity"        -> set_gravity(self, c.gx, c.gy)
      [] c.op = "collide_rect"       -> collide_rect(self, c.rect, c.restitution)
      [] c.op = "new"                -> new(c.capacity)
      [] c.op = "draw"               -> self
      [] c.op = "draw_additive"      -> self

Render(self, c, old) ==
    CASE c.op = "draw"          -> draw(self)
      [] c.op = "draw_additive" -> draw_additive(self)
      [] OTHER                  -> old

RECURSIVE SumLen(_, _)
SumLen(h, ids) ==
    IF ids = {} THEN 0
    ELSE LET id == CHOOSE x \in ids : TRUE
         IN  Len(h[id]) + SumLen(h, ids \ {id})

Calls == SumLen(hist, DOMAIN hist)

Call(id, c) ==
    /\ Calls < MaxCalls
    /\ pools' = [pools EXCEPT ![id] = Apply(Self(pools, id), c)]
    /\ hist' = [hist EXCEPT ![id] = Append(@, c)]
    /\ canvas' = [canvas EXCEPT ![id] = Render(Self(pools, id), c, @)]
    /\ UNCHANGED <<body, app>>

EmitBurst ==
    \E id \in DOMAIN pools, config \in Configs :
        Call(id, [op |-> "emit_burst", pos |-> Origin(config), config |-> config])

Update ==
    \E id \in DOMAIN pools, dt \in Dts :
        Call(id, [op |-> "update", dt |-> dt])

ApplyGravityWell ==
    \E id \in DOMAIN pools, w \in Wells :
        Call(id, [op |-> "apply_gravity_well", center |-> w.center,
                  strength |-> w.strength, radius |-> w.radius, dt |-> w.dt])

SetGravity ==
    \E id \in DOMAIN pools, g \in Gravities :
        Call(id, [op |-> "set_gravity", gx |-> g[1], gy |-> g[2]])

Draw == \E id \in DOMAIN pools : Call(id, [op |-> "draw"])

DrawAdditive == \E id \in DOMAIN pools : Call(id, [op |-> "draw_additive"])

Init ==
    /\ pools = [id \in {1} |-> new(Capacity)]
    /\ hist = [id \in {1} |-> <<>>]
    /\ canvas = [id \in {1} |-> <<>>]
    /\ body = ParticlesBody
    /\ app = AppNew

Next == EmitBurst \/ Update \/ ApplyGravityWell \/ SetGravity \/ Draw \/ DrawAdditive

Spec == Init /\ [][Next]_vars

(* ---------------- the random source driven on its own ------------------ *)
(* The generator is a full-period LCG (the increment is odd and the        *)
(* multiplier is 1 mod 4), so every 32-bit value is a state the pool       *)
(* reaches from the seed.  RngStates picks the seed, the extreme values    *)
(* and the states one draw before them.                                   *)

RngStates ==
    { SEED, <<0, 0>>, <<65535, 65535>>, <<32768, 0>>,
      <<46505, 44389>>, <<9973, 46880>>, <<46793, 21664>>,
      <<9686, 4069>>, <<59830, 26794>> }

Ranges == { <<2, 4>>, <<-1, 1>>, <<0, 100>> }

RngCall(id, c, r) ==
    /\ Calls < MaxCalls
    /\ pools' = [pools EXCEPT ![id].rng_state = r.state]
    /\ hist' = [hist EXCEPT ![id] = Append(@, [c EXCEPT !.ret = r.ret])]
    /\ UNCHANGED <<canvas, body, app>>

RandU32 ==
    \E id \in DOMAIN pools :
        RngCall(id, [op |-> "rand_u32", ret |-> 0], rand_u32(Self(pools, id).rng_state))

RandF32 ==
    \E id \in DOMAIN pools :
        RngCall(id, [op |-> "rand_f32", ret |-> 0], rand_f32(Self(pools, id).rng_state))

RandBetween ==
    \E id \in DOMAIN pools, ab \in Ranges :
        RngCall(id, [op |-> "rand_between", a |-> ab[1], b |-> ab[2], ret |-> 0],
                rand_between(Self(pools, id).rng_state, ab[1], ab[2]))

InitRng ==
    /\ \E s \in RngStates : pools = [id \in {1} |-> [new(Capacity) EXCEPT !.rng_state = s]]
    /\ hist = [id \in {1} |-> <<>>]
    /\ canvas = [id \in {1} |-> <<>>]
    /\ body = ParticlesBody
    /\ app = AppNew

NextRng == RandU32 \/ RandF32 \/ RandBetween

SpecRng == InitRng /\ [][NextRng]_vars

(* ---------------- two pools driven independently ----------------------- *)

DetCalls ==
    { [op |-> "emit_burst", pos |-> Origin(config), config |-> config] :
            config \in Configs }
    \cup { [op |-> "update", dt |-> dt] : dt \in {1, 2} }
    \cup { [op |-> "apply_gravity_well", center |-> <<2, 0>>, strength |-> 6,
            radius |-> 3, dt |-> 1] }
    \cup { [op |-> "set_gravity", gx |-> 1, gy |-> 0] }

DetCall == \E id \in DOMAIN pools, c \in DetCalls : Call(id, c)

InitDet ==
    /\ pools = [id \in {1, 2} |-> new(Capacity)]
    /\ hist = [id \in {1, 2} |-> <<>>]
    /\ canvas = [id \in {1, 2} |-> <<>>]
    /\ body = ParticlesBody
    /\ app = AppNew

NextDet == DetCall

SpecDet == InitDet /\ [][NextDet]_vars

(* ------------------- the bouncing square on its own -------------------- *)
(* Besides the two hosts' initial bodies, BodyStarts holds bodies of the   *)
(* playground next to the edges, which it reaches after more fixed steps   *)
(* than MaxFrames allows.                                                  *)

FrameDts == { 0, 1, 6, 240, 600 }

Inputs == { <<ix, iy>> : ix \in {-1, 0, 1}, iy \in {-1, 0, 1} }

BodyStarts ==
    { ParticlesBody, PlaygroundBody,
      [PlaygroundBody EXCEPT !.pos = <<8, 9>>, !.vel = <<-4, -3>>],
      [PlaygroundBody EXCEPT !.pos = <<1232, 670>>, !.vel = <<4, 3>>] }

ParticlesFrame ==
    /\ body.host = "particles"
    /\ body.frames < MaxFrames
    /\ \E dt \in FrameDts : body' = particles_frame(body, dt)
    /\ UNCHANGED <<pools, hist, canvas, app>>

PlaygroundStep ==
    /\ body.host = "playground"
    /\ body.frames < MaxFrames
    /\ \E input \in Inputs : body' = playground_step(body, input)
    /\ UNCHANGED <<pools, hist, canvas, app>>

InitBody ==
    /\ pools = [id \in {1} |-> new(Capacity)]
    /\ hist = [id \in {1} |-> <<>>]
    /\ canvas = [id \in {1} |-> <<>>]
    /\ body \in BodyStarts
    /\ app = AppNew

NextBody == ParticlesFrame \/ PlaygroundStep

SpecBody == InitBody /\ [][NextBody]_vars

(* ------------- the pool with the host's obstacle collision ------------- *)

Rects == { <<0, -5, 10, 10>>, <<-4, -2, 5, 6>> }

Restitutions == { <<0, 1>>, <<1, 1>>, <<3, 5>> }

CollideRect ==
    \E id \in DOMAIN pools, rect \in Rects, restitution \in Restitutions :
        Call(id, [op |-> "collide_rect", rect |-> rect, restitution |-> restitution])

NextCollide == SetGravity \/ EmitBurst \/ Update \/ CollideRect

SpecCollide == Init /\ [][NextCollide]_vars

(* ------------- a pool of capacity 4 filled and left to expire ---------- *)
(* Lifetimes and dt are in tenths of a second here: the emitter is the     *)
(* host's burst emitter (lifetime 0.6 .. 1.2 s), asked for 4 or 1.         *)

ExhaustCapacity == 4

ExhaustConfigs ==
    { [count |-> n, speed_min |-> 80, speed_max |-> 220, spread_radians |-> 1,
       base_direction |-> -1, life_min |-> 6, life_max |-> 12,
       size_min |-> 2, size_max |-> 4, start_color |-> Yellow, end_color |-> Blue] :
            n \in {ExhaustCapacity, 1} }

ExhaustDts == { 1, 7, 12 }

ExhaustEmit ==
    \E id \in DOMAIN pools, config \in ExhaustConfigs :
        Call(id, [op |-> "emit_burst", pos |-> <<160, 90>>, config |-> config])

ExhaustUpdate ==
    \E id \in DOMAIN pools, dt \in ExhaustDts :
        Call(id, [op |-> "update", dt |-> dt])

InitExhaust ==
    /\ pools = [id \in {1} |-> new(ExhaustCapacity)]
    /\ hist = [id \in {1} |-> <<>>]
    /\ canvas = [id \in {1} |-> <<>>]
    /\ body = ParticlesBody
    /\ app = AppNew

NextExhaust == ExhaustEmit \/ ExhaustUpdate

SpecExhaust == InitExhaust /\ [][NextExhaust]_vars

(* ------------- the host's pool and its first burst --------------------- *)
(* examples/particles.rs: ParticleSystem::new(10_000), set_gravity(0, 500) *)
(* and one emit_burst with burst_cfg; lifetimes in tenths of a second.     *)

HostCapacity == 10000

HostBurstCount == 64

BurstConfig ==
    [count |-> HostBurstCount, speed_min |-> 80, speed_max |-> 220,
     spread_radians |-> 1, base_direction |-> -1, life_min |-> 6, life_max |-> 12,
     size_min |-> 2, size_max |-> 4, start_color |-> Yellow, end_color |-> Blue]

BurstPos == <<160, 90>>

HostSetGravity ==
    \E id \in DOMAIN pools :
        /\ hist[id] = <<>>
        /\ Call(id, [op |-> "set_gravity", gx |-> 0, gy |-> 500])

HostBurst ==
    \E id \in DOMAIN pools :
        /\ Len(hist[id]) = 1
        /\ Call(id, [op |-> "emit_burst", pos |-> BurstPos, config |-> BurstConfig])

HostDraw == (\A id \in DOMAIN pools : Len(hist[id]) >= 2) /\ Draw

HostDrawAdditive == (\A id \in DOMAIN pools : Len(hist[id]) >= 2) /\ DrawAdditive

HostUpdate == (\A id \in DOMAIN pools : Len(hist[id]) >= 2) /\ Update

HostWell == (\A id \in DOMAIN pools : Len(hist[id]) >= 2) /\ ApplyGravityWell

InitBurst ==
    /\ pools = [id \in {1} |-> new(HostCapacity)]
    /\ hist = [id \in {1} |-> <<>>]
    /\ canvas = [id \in {1} |-> <<>>]
    /\ body = ParticlesBody
    /\ app = AppNew

NextBurst ==
    HostSetGravity \/ HostBurst \/ HostDraw \/ HostDrawAdditive \/ HostUpdate \/ HostWell

SpecBurst == InitBurst /\ [][NextBurst]_vars

(* ------------------- fill_rect_f32 driven on its own -------------------- *)

(* Coordinates and sizes in quarters of a pixel.                           *)
Coords == {<<n, 4>> : n \in -6 .. 6}

Sizes == {<<n, 4>> : n \in {-4, 0, 1, 3, 4, 5, 6, 10}}

FillRectF32 ==
    \E x \in Coords, y \in {<<-2, 4>>, <<1, 4>>, <<2, 4>>}, w \in Sizes,
       h \in {<<0, 4>>, <<2, 4>>, <<14, 4>>}, color \in {Yellow, Blue} :
        /\ hist[1] = <<>>
        /\ hist' = [hist EXCEPT ![1] = <<[op |-> "fill_rect_f32", x |-> x, y |-> y,
                                          w |-> w, h |-> h, color |-> color]>>]
        /\ canvas' = [canvas EXCEPT ![1] = fill_rect_f32(x, y, w, h, color)]
        /\ UNCHANGED <<pools, body, app>>

NextCanvas == FillRectF32

SpecCanvas == Init /\ [][NextCanvas]_vars

(* ---------- one pool driven by bursts with other calls between ---------- *)

BetweenCalls == DetCalls \cup {[op |-> "draw"], [op |-> "draw_additive"]}

BetweenCall == \E c \in BetweenCalls : Call(1, c)

NextBetween == BetweenCall

SpecBetween == Init /\ [][NextBetween]_vars

(* ---------------------- the Input driven on its own --------------------- *)
(* hist[1] is the sequence of begin_frame and handle_window_event calls.   *)

InputKeys == {"F", "A"}

InputEvents ==
    { [kind |-> "KeyboardInput", virtual_keycode |-> k, state |-> s] :
          k \in InputKeys \cup {"None"}, s \in {"Pressed", "Released"} }
    \cup { [kind |-> "MouseInput", button |-> "Left", state |-> s] :
          s \in {"Pressed", "Released"} }

BeginFrame ==
    /\ Calls < MaxCalls
    /\ app' = [app EXCEPT !.input = begin_frame(@)]
    /\ hist' = [hist EXCEPT ![1] = Append(@, [op |-> "begin_frame"])]
    /\ UNCHANGED <<pools, canvas, body>>

HandleWindowEvent ==
    \E e \in InputEvents :
        /\ Calls < MaxCalls
        /\ app' = [app EXCEPT !.input = handle_window_event(@, e)]
        /\ hist' = [hist EXCEPT ![1] = Append(@, [op |-> "handle_window_event",
                                                  event |-> e])]
        /\ UNCHANGED <<pools, canvas, body>>

NextInput == BeginFrame \/ HandleWindowEvent

SpecInput == Init /\ [][NextInput]_vars

(* ---------------- the host's frame loop (examples/particles.rs) --------- *)
(* The pool is scaled down from 10_000 to Capacity slots.  As in the first *)
(* burst above, lifetimes and the frame time dt are in tenths of a second  *)
(* (the square takes 6 * dt of its 1/60 s steps) and angles are in quarter *)
(* turns, on which the 0.35 rad spread of the fountain and the wiggle of   *)
(* the mouse emitter are 0.  The inputs are the five bound keys of         *)
(* AppInput, the left mouse button, one cursor position on the Clear       *)
(* button and the close request; the preset and well-parameter controls,   *)
(* whose keys and buttons are not among them, keep their initial values.   *)
(* hist[1] is the sequence of pool calls of the latest frame, canvas[1]    *)
(* its fill_rect calls (the square, the particles, the mouse dot; the      *)
(* well circle and the panels and glyphs of the overlay are left out).     *)

SparkleConfig ==
    [count |-> HostBurstCount, speed_min |-> 80, speed_max |-> 220,
     spread_radians |-> 1, base_direction |-> -1, life_min |-> 6, life_max |-> 12,
     size_min |-> 2, size_max |-> 4,
     start_color |-> <<255, 160, 240, 255>>, end_color |-> <<180, 200, 255, 0>>]

FountainConfig ==
    [SparkleConfig EXCEPT !.count = 24, !.speed_min = 120, !.speed_max = 240,
                          !.spread_radians = 0, !.base_direction = -1]

(* Faulty variant of Rect::contains: the edges are left out.              *)
contains_open(r, p) ==
    p[1] > r[1] /\ p[1] < r[1] + r[3] /\ p[2] > r[2] /\ p[2] < r[2] + r[4]

(* Rect::contains, r being <<x, y, w, h>>.                                 *)
contains(r, p) ==
    p[1] >= r[1] /\ p[1] <= r[1] + r[3] /\ p[2] >= r[2] /\ p[2] <= r[2] + r[4]

(* The four buttons of the left column: Fountain, Well, Blend, Clear.      *)
vbutton(n) == <<8, 32 + (n - 1) * 28, 110, 22>>

(* All button rectangles on the 320 x 180 canvas; the remaining width of   *)
(* 36 is too small for the "Well @ Mouse" button.                          *)
ui_button_rects ==
    {vbutton(n) : n \in 1 .. 4}
    \cup {<<124 + k * 80, 32, 74, 22>> : k \in 0 .. 2}
    \cup {<<124 + k * 38, 60, 32, 22>> : k \in 0 .. 3}

(* Ui::button: hovered and the left button released in this frame.         *)
button(inp, r) == contains(r, inp.mouse_pos) /\ mouse_clicked(inp, "Left")

(* self.ps = ParticleSystem::new(..); self.ps.set_gravity(0.0, 500.0)      *)
pool_reset ==
    <<[op |-> "new", capacity |-> Capacity], [op |-> "set_gravity", gx |-> 0, gy |-> 500]>>

(* The pool after the calls cs[n], cs[n + 1], ... in turn.                 *)
RECURSIVE pool_calls(_, _, _)
pool_calls(ps, cs, n) ==
    IF n > Len(cs) THEN ps ELSE pool_calls(Apply(ps, cs[n]), cs, n + 1)

toggle(flag, on) == IF on THEN ~flag ELSE flag

(* The pool calls of App::update from the emitters on, in a given order of *)
(* the last three.                                                         *)
update_calls(a, b, dt, order) ==
    LET inp  == a.input
        call == [well    |-> [op |-> "apply_gravity_well", center |-> <<160, 90>>,
                              strength |-> 1200, radius |-> 70, dt |-> dt],
                 update  |-> [op |-> "update", dt |-> dt],
                 collide |-> [op |-> "collide_rect",
                              rect |-> <<b.pos[1] \div 4, b.pos[2] \div 4,
                                         b.size \div 4, b.size \div 4>>,
                              restitution |-> <<3, 5>>]]
    IN  (IF mouse_pressed(inp, "Left") /\ ~a.ui_click_consumed
         THEN <<[op |-> "emit_burst", pos |-> inp.mouse_pos, config |-> SparkleConfig]>>
         ELSE <<>>)
        \o (IF a.fountain
            THEN <<[op |-> "emit_burst", pos |-> <<160, 162>>, config |-> FountainConfig]>>
            ELSE <<>>)
        \o SelectSeq(<<call[order[1]], call[order[2]], call[order[3]]>>,
                     LAMBDA c : c.op = "apply_gravity_well" => a.well_active)

(* App::update with a given order of its last three pool calls: whether to *)
(* quit, the App and the square after it, and its pool calls.              *)
app_update_in(a, b, dt, order) ==
    LET inp == a.input
        a1  == [a EXCEPT
                   !.fountain = toggle(@, action_just_pressed(inp, "toggle_fountain", {})),
                   !.additive = toggle(@, action_just_pressed(inp, "toggle_additive", {})),
                   !.well_active = toggle(@, action_just_pressed(inp, "toggle_well", {}))]
        b1  == particles_frame(b, 6 * dt)
    IN  IF action_just_pressed(inp, "quit", {})
        THEN [quit |-> TRUE, app |-> a, body |-> b, trace |-> <<>>]
        ELSE [quit |-> FALSE, app |-> a1, body |-> b1,
              trace |-> (IF action_just_pressed(inp, "reset_particles", {})
                         THEN pool_reset ELSE <<>>)
                        \o update_calls(a1, b1, dt, order)]

(* Faulty variant of app_update: the rectangle collision precedes update.  *)
app_update_collide_first(a, b, dt) ==
    app_update_in(a, b, dt, <<"well", "collide", "update">>)

app_update(a, b, dt) == app_update_in(a, b, dt, <<"well", "update", "collide">>)

(* App::draw_ui: the buttons of the left column.                           *)
draw_ui(a) ==
    LET inp == a.input
    IN  [app |-> [a EXCEPT !.fountain = toggle(@, button(inp, vbutton(1))),
                           !.well_active = toggle(@, button(inp, vbutton(2))),
                           !.additive = toggle(@, button(inp, vbutton(3)))],
         trace |-> IF button(inp, vbutton(4)) THEN pool_reset ELSE <<>>]

(* App::render on the pool ps: the fills, the draw call, the overlay, and  *)
(* Ok(()).                                                                 *)
app_render(a, ps, b) ==
    LET inp == a.input
        op  == IF a.additive THEN "draw_additive" ELSE "draw"
        ui  == draw_ui(a)
    IN  [result |-> "Ok", app |-> ui.app, trace |-> <<[op |-> op]>> \o ui.trace,
         fills |-> fill_rect_f32(<<b.pos[1], 4>>, <<b.pos[2], 4>>, <<b.size, 4>>,
                                 <<b.size, 4>>, <<120, 210, 255, 200>>)
                   \o Render(ps, [op |-> op], <<>>)
                   \o fill_rect_f32(F(inp.mouse_pos[1] - 2), F(inp.mouse_pos[2] - 2),
                                    F(4), F(4), <<255, 255, 255, 160>>)]

(* over_any_button && mouse_pressed(Left)                                  *)
click_consumed(inp) ==
    (\E r \in ui_button_rects : contains(r, inp.mouse_pos)) /\ mouse_pressed(inp, "Left")

(* The frame once App::update has returned u, App::render r on the pool    *)
(* ps1, and present() its outcome; the exit request is sticky.             *)
frame_end(u, r, ps1, presented) ==
    [app   |-> [r.app EXCEPT !.render = r.result,
                             !.present = IF r.result = "Ok" THEN presented ELSE @,
                             !.control_flow =
                                 IF r.result = "Ok" /\ presented = "Ok" THEN @ ELSE "Exit"],
     ps    |-> pool_calls(ps1, r.trace, 1),
     body  |-> u.body,
     trace |-> u.trace \o r.trace,
     fills |-> r.fills]

(* canvas.clear, App::render on the updated pool ps1, canvas.present().    *)
frame_render(u, ps1, presented) ==
    CHOOSE f \in { frame_end(u, r, ps1, presented) :
                       r \in {app_render(u.app, ps1, u.body)} } : TRUE

(* Faulty variant of main_events_cleared: a failed present is ignored.     *)
main_events_cleared_unchecked(a, ps, b, cv, dt, presented) ==
    CHOOSE f \in
        { IF u.quit
          THEN [app |-> [u.app EXCEPT !.control_flow = "Exit"], ps |-> ps, body |-> b,
                trace |-> <<>>, fills |-> cv]
          ELSE CHOOSE g \in
                   { [frame_render(u, ps1, "Ok") EXCEPT !.app.present = presented] :
                         ps1 \in {pool_calls(ps, u.trace, 1)} } : TRUE :
              u \in {app_update([a EXCEPT !.ui_click_consumed =
                                              click_consumed(a.input)], b, dt)} } : TRUE

(* The Event::MainEventsCleared arm: update, clear, render, present.       *)
main_events_cleared(a, ps, b, cv, dt, presented) ==
    CHOOSE f \in
        { IF u.quit
          THEN [app |-> [u.app EXCEPT !.control_flow = "Exit"], ps |-> ps, body |-> b,
                trace |-> <<>>, fills |-> cv]
          ELSE CHOOSE g \in
                   { frame_render(u, ps1, presented) :
                         ps1 \in {pool_calls(ps, u.trace, 1)} } : TRUE :
              u \in {app_update([a EXCEPT !.ui_click_consumed =
                                              click_consumed(a.input)], b, dt)} } : TRUE

HostKeys == {"Escape", "F", "R", "A", "G"}

HostEvents ==
    { [kind |-> "KeyboardInput", virtual_keycode |-> k, state |-> "Pressed"] :
          k \in HostKeys }
    \cup { [kind |-> "MouseInput", button |-> "Left", state |-> s] :
          s \in {"Pressed", "Released"} }
    \cup { [kind |-> "CursorMoved", position |-> <<60, 127>>],
           [kind |-> "CloseRequested"] }

(* Event::NewEvents: a new iteration of the loop, unless exit was asked.   *)
NewEvents ==
    /\ app.phase = "NewEvents"
    /\ app.control_flow = "Poll"
    /\ body.frames < MaxFrames
    /\ app' = [app EXCEPT !.input = begin_frame(@), !.phase = "WindowEvent",
                          !.handled = FALSE]
    /\ UNCHANGED <<pools, hist, canvas, body>>

(* Event::WindowEvent: at most one per iteration.                          *)
WindowEvent ==
    \E e \in HostEvents :
        /\ app.phase = "WindowEvent"
        /\ ~app.handled
        /\ app' = CASE e.kind = "CloseRequested" ->
                           [app EXCEPT !.control_flow = "Exit", !.handled = TRUE]
                    [] e.kind = "CursorMoved" ->
                           [app EXCEPT !.input.mouse_pos = e.position, !.handled = TRUE]
                    [] OTHER ->
                           [app EXCEPT !.input = handle_window_event(@, e),
                                       !.handled = TRUE]
        /\ UNCHANGED <<pools, hist, canvas, body>>

(* Event::MainEventsCleared, present() succeeding or failing.  After a     *)
(* close request the iteration may still be completed.                     *)
MainEventsCleared ==
    \E dt \in {1, 7}, presented \in {"Ok", "Err"} :
        /\ app.phase = "WindowEvent"
        /\ \E f \in {main_events_cleared(app, pools[1], body, canvas[1], dt, presented)} :
               /\ app' = [f.app EXCEPT !.phase = "NewEvents"]
               /\ pools' = [pools EXCEPT ![1] = f.ps]
               /\ hist' = [hist EXCEPT ![1] = f.trace]
               /\ canvas' = [canvas EXCEPT ![1] = f.fills]
               /\ body' = f.body

InitHost ==
    /\ pools = [id \in {1} |-> set_gravity(new(Capacity), 0, 500)]
    /\ hist = [id \in {1} |-> <<>>]
    /\ canvas = [id \in {1} |-> <<>>]
    /\ body = ParticlesBody
    /\ app = AppNew

NextHost == NewEvents \/ WindowEvent \/ MainEventsCleared

SpecHost == InitHost /\ [][NextHost]_vars

(* ------------------ the Ui driven on its own (src/src/ui) --------------- *)
(* hist[1] is the sequence of begin_frame, MouseInput and Ui::button calls, *)
(* a button call with its rectangle, its result and the Ui it leaves       *)
(* behind; canvas[1] holds the fills of the latest button call (the border *)
(* and the inner fill; the glyphs of the label are left out).  The host    *)
(* writes the cursor position into Input::mouse_pos, which is not a call   *)
(* of the Input and is not recorded.  begin_frame calls are bounded by     *)
(* MaxFrames, the other calls by MaxCalls.                                 *)

ui_new == [hot |-> "None", active |-> "None", next_id |-> 1]

(* Ui::button on the Input inp and the rectangle r: the Ui afterwards, the *)
(* fills and the returned value.                                           *)
ui_button(self, inp, r) ==
    LET id          == self.next_id
        hovered     == contains(r, inp.mouse_pos)
        pressed_now == mouse_pressed(inp, "Left")
        base   == IF hovered THEN <<235, 235, 235, 210>> ELSE <<220, 220, 220, 180>>
        border == IF pressed_now /\ hovered THEN <<255, 100, 200, 255>>
                                            ELSE <<80, 80, 80, 220>>
    IN  [ui      |-> [self EXCEPT !.next_id = id + 1,
                                  !.hot = IF hovered THEN id ELSE @],
         fills   |-> fill_rect_f32(F(r[1] - 1), F(r[2] - 1), F(r[3] + 2), F(r[4] + 2),
                                   border)
                     \o fill_rect_f32(F(r[1]), F(r[2]), F(r[3]), F(r[4]), base),
         clicked |-> button(inp, r)]

(* The Clear button of the host's left column.                             *)
UiRects == {vbutton(4)}

(* Cursor positions: the lower right corner of the Clear button and one    *)
(* pixel to its right; the cursor starts at <<0, 0>>.                      *)
UiPositions == {<<118, 138>>, <<119, 138>>}

(* The Ui after the calls of h.                                            *)
UiAfter(h) ==
    LET B == {j \in DOMAIN h : h[j].op = "button"}
    IN  IF B = {} THEN ui_new ELSE h[CHOOSE j \in B : \A i \in B : i <= j].ui

FrameCount(h) == Cardinality({j \in DOMAIN h : h[j].op = "begin_frame"})

UiBeginFrame ==
    /\ FrameCount(hist[1]) < MaxFrames
    /\ app' = [app EXCEPT !.input = begin_frame(@)]
    /\ hist' = [hist EXCEPT ![1] = Append(@, [op |-> "begin_frame"])]
    /\ UNCHANGED <<pools, canvas, body>>

UiMouseInput ==
    \E s \in {"Pressed", "Released"} :
        LET e == [kind |-> "MouseInput", button |-> "Left", state |-> s]
        IN  /\ Len(hist[1]) - FrameCount(hist[1]) < MaxCalls
            /\ app' = [app EXCEPT !.input = handle_window_event(@, e)]
            /\ hist' = [hist EXCEPT ![1] = Append(@, [op |-> "handle_window_event",
                                                      event |-> e])]
            /\ UNCHANGED <<pools, canvas, body>>

UiCursorMoved ==
    \E p \in UiPositions :
        /\ app' = [app EXCEPT !.input.mouse_pos = p]
        /\ UNCHANGED <<pools, hist, canvas, body>>

UiButton ==
    \E r \in UiRects :
        \E b \in {ui_button(UiAfter(hist[1]), app.input, r)} :
            /\ Len(hist[1]) - FrameCount(hist[1]) < MaxCalls
            /\ hist' = [hist EXCEPT ![1] = Append(@, [op |-> "button", rect |-> r,
                                                      clicked |-> b.clicked,
                                                      ui |-> b.ui])]
            /\ canvas' = [canvas EXCEPT ![1] = b.fills]
            /\ UNCHANGED <<pools, body, app>>

NextUi == UiBeginFrame \/ UiMouseInput \/ UiCursorMoved \/ UiButton

SpecUi == Init /\ [][NextUi]_vars

(* ------------ the fixed-timestep loop (examples/playground.rs) ---------- *)
(* Durations are in nanoseconds.  In this specification app holds the      *)
(* locals of the event-loop closure: target, acc, the input vector and the *)
(* control flow, and of the latest frame the elapsed time now - last, the  *)
(* number of simulation steps and the outcome of present(); frames counts  *)
(* the frames.  canvas[1] holds the fill of the latest frame.  The keys    *)
(* are Left and Right.                                                     *)

(* Duration::from_secs_f32(1.0 / 60.0): the f32 quotient is                *)
(* 0.016666667535901..., which from_secs_f32 truncates or rounds to whole  *)
(* nanoseconds depending on the version of the standard library.           *)
Targets == {16666667, 16666668}

FrameClamp == 100000000

(* Faulty variant of the clamp: the elapsed time is taken as it is.        *)
clamp_dt_none(dt) == dt

(* if dt > Duration::from_millis(100) { dt = Duration::from_millis(100); } *)
clamp_dt(dt) == IF dt > FrameClamp THEN FrameClamp ELSE dt

(* while acc >= target { one step of the body; acc -= target; }, n being   *)
(* the number of steps run so far.                                         *)
RECURSIVE fixed_steps(_, _, _, _, _)
fixed_steps(acc, target, b, input, n) ==
    IF acc < target THEN [acc |-> acc, body |-> b, steps |-> n]
    ELSE CHOOSE r \in {fixed_steps(acc - target, target, nb, input, n + 1) :
                           nb \in {playground_step(b, input)}} : TRUE

PlaygroundNew(t) ==
    [target |-> t, acc |-> 0, input |-> <<0, 0>>, control_flow |-> "Poll",
     elapsed |-> 0, steps |-> 0, frames |-> 0, present |-> "none"]

(* Event::MainEventsCleared after the time elapsed since the previous one, *)
(* present() returning presented: the closure's locals, the body and the   *)
(* fill (the casts to i32 truncate quarter pixels to pixels).              *)
playground_frame(a, b, elapsed, presented) ==
    CHOOSE f \in
        { [app   |-> [a EXCEPT !.acc = s.acc, !.elapsed = elapsed, !.steps = s.steps,
                               !.frames = @ + 1, !.present = presented,
                               !.control_flow = IF presented = "Ok" THEN @ ELSE "Exit"],
           body  |-> s.body,
           fills |-> <<[x |-> TruncDiv(s.body.pos[1], 4), y |-> TruncDiv(s.body.pos[2], 4),
                        w |-> TruncDiv(s.body.size, 4), h |-> TruncDiv(s.body.size, 4),
                        color |-> <<255, 179, 218, 255>>]>>] :
              s \in {fixed_steps(a.acc + clamp_dt(elapsed), a.target, b, a.input, 0)} } :
        TRUE

(* Event::WindowEvent: a close request or a press or release of an arrow   *)
(* key.                                                                    *)
PlayWindowEvent ==
    /\ app.control_flow = "Poll"
    /\ \/ app' = [app EXCEPT !.control_flow = "Exit"]
       \/ \E key \in {"Left", "Right"}, v \in {0, 1} :
              app' = [app EXCEPT !.input[1] = IF key = "Left" THEN -v ELSE v]
    /\ UNCHANGED <<pools, hist, canvas, body>>

PlayMainEventsCleared ==
    \E elapsed \in {0, 16666667, 50000000, 100000000, 100000001, 2000000000},
       presented \in {"Ok", "Err"} :
        /\ app.control_flow = "Poll"
        /\ app.frames < MaxFrames
        /\ \E f \in {playground_frame(app, body, elapsed, presented)} :
               /\ app' = f.app
               /\ body' = f.body
               /\ canvas' = [canvas EXCEPT ![1] = f.fills]
        /\ UNCHANGED <<pools, hist>>

InitPlay ==
    /\ pools = [id \in {1} |-> new(Capacity)]
    /\ hist = [id \in {1} |-> <<>>]
    /\ canvas = [id \in {1} |-> <<>>]
    /\ body = PlaygroundBody
    /\ app \in {PlaygroundNew(t) : t \in Targets}

NextPlay == PlayWindowEvent \/ PlayMainEventsCleared

SpecPlay == InitPlay /\ [][NextPlay]_vars

(* ------------------------ vocabulary of the claims --------------------- *)

Slots(id) == DOMAIN pools[id].particles

AliveSet(self) == {i \in DOMAIN self.particles : self.particles[i].alive}

InertSet(self) == {i \in DOMAIN self.particles : ~self.particles[i].alive}

Last(h) == h[Len(h)]

Stepped(id) == hist'[id] # hist[id]

TheCall(id) == Last(hist'[id])

IsCall(id, op) == Stepped(id) /\ TheCall(id).op = op

RECURSIVE Replay(_, _)
Replay(h, n) == IF n = 0 THEN new(Capacity) ELSE Apply(Replay(h, n - 1), h[n])

Lowest(S, k) == {i \in S : Cardinality({j \in S : j < i}) < k}

AddMod32(x, y) ==
    LET low == x[2] + y[2]
        c   == IF low >= Limb THEN 1 ELSE 0
    IN  <<(x[1] + y[1] + c) % Limb, low - c * Limb>>

TimesMod32(x, k) ==
    LET x0 == x[2] % 256
        x1 == x[2] \div 256
        x2 == x[1] % 256
        x3 == x[1] \div 256
        k0 == k % 256
        k1 == (k \div 256) % 256
        k2 == (k \div Limb) % 256
        k3 == k \div (256 * Limb)
        c0 == x0 * k0
        c1 == x0 * k1 + x1 * k0 + (c0 \div 256)
        c2 == x0 * k2 + x1 * k1 + x2 * k0 + (c1 \div 256)
        c3 == x0 * k3 + x1 * k2 + x2 * k1 + x3 * k0 + (c2 \div 256)
    IN  <<(c3 % 256) * 256 + (c2 % 256), (c1 % 256) * 256 + (c0 % 256)>>

LcgStep(s) ==
    AddMod32(TimesMod32(s, 1664525), <<1013904223 \div Limb, 1013904223 % Limb>>)

(* n steps of the generator as the specification states it, computed byte  *)
(* by byte (independently of wrapping_mul / wrapping_add).                 *)
RECURSIVE LcgSteps(_, _)
LcgSteps(s, n) ==
    IF n = 0 THEN s
    ELSE CHOOSE r \in {LcgStep(v) : v \in {LcgSteps(s, n - 1)}} : TRUE

Uniform(s, n, a, b) == a + MulF(b - a, u32_as_f32(LcgSteps(s, n)))

(* ------------------------------- claims -------------------------------- *)

(* C1: the number of alive slots never exceeds the capacity the pool was   *)
(* constructed with, whatever calls were made.                             *)
C1_AliveWithinCapacity ==
    \A id \in DOMAIN pools : Cardinality(AliveSet(pools[id])) <= Capacity

C1_Witness ==
    /\ hist[1] # <<>>
    /\ Last(hist[1]).op = "emit_burst"
    /\ Last(hist[1]).config.count > Capacity
    /\ Cardinality(AliveSet(pools[1])) = Capacity

(* C2: an emit_burst on a pool with f inert slots turns exactly            *)
(* min(count, f) slots alive, keeps every alive slot alive, and with f = 0 *)
(* leaves the pool as it was; no other call makes a slot alive (a dropped  *)
(* request is not queued or retried).                                      *)
C2_EmitStep ==
    \A id \in DOMAIN pools :
        IsCall(id, "emit_burst") =>
            LET f      == Cardinality(InertSet(pools[id]))
                before == AliveSet(pools[id])
                after  == AliveSet(pools'[id])
            IN  /\ before \subseteq after
                /\ Cardinality(after \ before) = Min(TheCall(id).config.count, f)
                /\ f = 0 => pools'[id] = pools[id]

C2_NothingQueued ==
    \A id \in DOMAIN pools :
        (Stepped(id) /\ TheCall(id).op # "emit_burst") =>
            AliveSet(pools'[id]) \subseteq AliveSet(pools[id])

C2_EmitCreatesMinCountFree == [][C2_EmitStep /\ C2_NothingQueued]_vars

C2_Witness ==
    /\ Len(hist[1]) = 2
    /\ hist[1][1].op = "emit_burst" /\ hist[1][1].config.count = 1
    /\ hist[1][2].op = "emit_burst" /\ hist[1][2].config.count = Capacity + 1
    /\ Cardinality(AliveSet(Replay(hist[1], 1))) = 1
    /\ Cardinality(AliveSet(pools[1])) = Capacity

(* C3: every slot is inert after construction; a slot turns alive only in  *)
(* an emit_burst that selects it (it is among the lowest min(count, f)     *)
(* inert slots); a slot turns inert only in an update that leaves its      *)
(* remaining lifetime <= 0.                                                *)
C3_InitInert == \A id \in DOMAIN pools : AliveSet(pools[id]) = {}

C3_Step ==
    \A id \in DOMAIN pools : \A i \in Slots(id) :
        LET p == pools[id].particles[i]
            q == pools'[id].particles[i]
        IN  /\ (~p.alive /\ q.alive) =>
                /\ IsCall(id, "emit_burst")
                /\ i \in Lowest(InertSet(pools[id]), TheCall(id).config.count)
            /\ (p.alive /\ ~q.alive) =>
                /\ IsCall(id, "update")
                /\ q.life = p.life - TheCall(id).dt
                /\ q.life <= 0

C3_SlotStateMachine == C3_InitInert /\ [][C3_Step]_vars

C3_Witness ==
    /\ Len(hist[1]) = 3
    /\ hist[1][1].op = "emit_burst"
    /\ hist[1][2].op = "update"
    /\ hist[1][3].op = "emit_burst"
    /\ Replay(hist[1], 1).particles[1].alive
    /\ ~Replay(hist[1], 2).particles[1].alive
    /\ pools[1].particles[1].alive
(* C4 (as stated): every update(dt) strictly decreases the remaining       *)
(* lifetime of each alive particle by exactly dt; a particle whose         *)
(* remaining lifetime is <= 0 after the decrement is inert after that same *)
(* call; an inert slot stays inert through update, apply_gravity_well and  *)
(* set_gravity.                                                            *)
C4_DiesAndStaysInert(id, i) ==
    LET p == pools[id].particles[i]
        q == pools'[id].particles[i]
    IN  /\ (IsCall(id, "update") /\ p.alive /\ q.life <= 0) => ~q.alive
        /\ (Stepped(id) /\ ~p.alive /\ TheCall(id).op # "emit_burst") => q = p

C4_StepAsStated ==
    \A id \in DOMAIN pools : \A i \in Slots(id) :
        LET p == pools[id].particles[i]
            q == pools'[id].particles[i]
        IN  /\ (IsCall(id, "update") /\ p.alive) =>
                (q.life = p.life - TheCall(id).dt /\ q.life < p.life)
            /\ C4_DiesAndStaysInert(id, i)

C4_LifetimeStrictlyDecreases == [][C4_StepAsStated]_vars

(* C4 (amended): every update(dt) with dt > 0 strictly decreases the       *)
(* remaining lifetime of each alive particle by exactly dt (dt = 0 leaves  *)
(* it unchanged, dt < 0 increases it); the rest as stated.                 *)
C4_StepAmended ==
    \A id \in DOMAIN pools : \A i \in Slots(id) :
        LET p == pools[id].particles[i]
            q == pools'[id].particles[i]
        IN  /\ (IsCall(id, "update") /\ p.alive) =>
                /\ q.life = p.life - TheCall(id).dt
                /\ TheCall(id).dt > 0 => q.life < p.life
                /\ TheCall(id).dt = 0 => q.life = p.life
                /\ TheCall(id).dt < 0 => q.life > p.life
            /\ C4_DiesAndStaysInert(id, i)

C4_LifetimeDecreasesForPositiveDt == [][C4_StepAmended]_vars

C4_Witness ==
    /\ Len(hist[1]) = 4
    /\ hist[1][1].op = "emit_burst"
    /\ hist[1][2].op = "update" /\ hist[1][2].dt > 0
    /\ hist[1][3].op = "update" /\ hist[1][3].dt > 0
    /\ hist[1][4].op = "apply_gravity_well"
    /\ Replay(hist[1], 1).particles[1].alive
    /\ Replay(hist[1], 2).particles[1].alive
    /\ Replay(hist[1], 2).particles[1].life
         = Replay(hist[1], 1).particles[1].life - hist[1][2].dt
    /\ ~Replay(hist[1], 3).particles[1].alive
    /\ ~pools[1].particles[1].alive

(* C5 (as stated): in every reachable state every slot has                 *)
(* life <= life_total, for any caller-supplied dt.                         *)
C5_LifeWithinTotal ==
    \A id \in DOMAIN pools : \A i \in Slots(id) :
        pools[id].particles[i].life <= pools[id].particles[i].life_total

(* C5 (amended): every slot has life <= life_total in every state reached  *)
(* by calls whose update steps all have dt >= 0.                           *)
NoNegativeDt(h) ==
    \A n \in 1..Len(h) : h[n].op = "update" => h[n].dt >= 0

C5_LifeWithinTotalForNonNegativeDt ==
    \A id \in DOMAIN pools :
        NoNegativeDt(hist[id]) =>
            \A i \in Slots(id) :
                pools[id].particles[i].life <= pools[id].particles[i].life_total

C5_Witness ==
    /\ Len(hist[1]) = 3
    /\ hist[1][1].op = "emit_burst"
    /\ hist[1][2].op = "update" /\ hist[1][2].dt = 1
    /\ hist[1][3].op = "update" /\ hist[1][3].dt = 1
    /\ pools[1].particles[1].alive
    /\ pools[1].particles[1].life = pools[1].particles[1].life_total - 2

(* C7: an emit_burst that creates k particles advances the generator by    *)
(* exactly 4 * k draws and by none for a dropped request; the j-th created *)
(* particle takes draws 4j+1 .. 4j+4 as direction, speed, lifetime, size.  *)
Created(id) == AliveSet(pools'[id]) \ AliveSet(pools[id])

C7_EmitStep ==
    \A id \in DOMAIN pools :
        IsCall(id, "emit_burst") =>
            LET c == TheCall(id).config
                s == pools[id].rng_state
            IN  /\ pools'[id].rng_state = LcgSteps(s, 4 * Cardinality(Created(id)))
                /\ \A i \in Created(id) :
                      LET j   == Cardinality({x \in Created(id) : x < i})
                          dir == c.base_direction
                                   + Uniform(s, 4 * j + 1, -c.spread_radians, c.spread_radians)
                          spd == Uniform(s, 4 * j + 2, c.speed_min, c.speed_max)
                          q   == pools'[id].particles[i]
                      IN  /\ q.vel = <<COS(dir) * spd, SIN(dir) * spd>>
                          /\ q.life = Uniform(s, 4 * j + 3, c.life_min, c.life_max)
                          /\ q.life_total = q.life
                          /\ q.size = Uniform(s, 4 * j + 4, c.size_min, c.size_max)

C7_FourDrawsPerParticle == [][C7_EmitStep]_vars

C7_Witness ==
    /\ Len(hist[1]) = 2
    /\ hist[1][1].op = "emit_burst" /\ hist[1][1].config.count = 1
    /\ hist[1][2].op = "emit_burst" /\ hist[1][2].config.count = Capacity + 1
    /\ Replay(hist[1], 1).rng_state = LcgSteps(SEED, 4)
    /\ pools[1].rng_state = LcgSteps(SEED, 4 * Capacity)
    /\ pools[1].rng_state # LcgSteps(SEED, 4 * (Capacity + 2))

(* C10: apply_gravity_well leaves the velocity of every particle farther   *)
(* than radius from the centre unchanged, for every radius, negative ones  *)
(* included.                                                               *)
Farther(p, center, radius) ==
    LET dx == center[1] - p.pos[1]
        dy == center[2] - p.pos[2]
    IN  radius < 0 \/ dx * dx + dy * dy > radius * radius

C10_WellStep ==
    \A id \in DOMAIN pools :
        IsCall(id, "apply_gravity_well") =>
            \A i \in Slots(id) :
                Farther(pools[id].particles[i], TheCall(id).center, TheCall(id).radius)
                    => pools'[id].particles[i].vel = pools[id].particles[i].vel

C10_GravityWellLocality == [][C10_WellStep]_vars

(* C8: every draw replaces the state by (state * 1664525 + 1013904223)     *)
(* mod 2^32, rand_u32 returns the new state, and a fresh pool starts from  *)
(* the non-zero seed 0x1234ABCD.                                           *)
C8_DrawStep ==
    \A id \in DOMAIN pools :
        Stepped(id) =>
            /\ pools'[id].rng_state = LcgStep(pools[id].rng_state)
            /\ TheCall(id).op = "rand_u32" => TheCall(id).ret = pools'[id].rng_state

C8_FreshSeed ==
    /\ new(Capacity).rng_state = <<4660, 43981>>
    /\ new(Capacity).rng_state # <<0, 0>>

C8_LinearCongruentialDraw == C8_FreshSeed /\ [][C8_DrawStep]_vars

C8_Witness ==
    /\ Len(hist[1]) = 2
    /\ hist[1][1].op = "rand_u32" /\ hist[1][1].ret = <<65535, 65535>>
    /\ hist[1][2].op = "rand_u32" /\ hist[1][2].ret = <<15445, 36178>>

(* C9: rand_f32 returns a value in [0, 1), never 1, and for a < b          *)
(* rand_between(a, b) returns a value in [a, b), never b.                  *)
C9_UniformHalfOpen ==
    \A id \in DOMAIN pools :
        hist[id] # <<>> =>
            LET c == Last(hist[id])
            IN  /\ c.op = "rand_f32" => (c.ret[1] < Limb /\ c.ret[1] >= 0)
                /\ (c.op = "rand_between" /\ c.a < c.b) => (c.a <= c.ret /\ c.ret < c.b)

AllCalls ==
    { [op |-> "emit_burst", pos |-> Origin(config), config |-> config] :
            config \in Configs }
    \cup { [op |-> "update", dt |-> dt] : dt \in Dts }
    \cup { [op |-> "apply_gravity_well", center |-> w.center, strength |-> w.strength,
            radius |-> w.radius, dt |-> w.dt] : w \in Wells }
    \cup { [op |-> "set_gravity", gx |-> g[1], gy |-> g[2]] : g \in Gravities }
    \cup { [op |-> "draw"], [op |-> "draw_additive"] }

Degenerate(c) ==
    \/ c.op = "apply_gravity_well" /\ (c.radius < 0 \/ c.strength = 0)
    \/ c.op = "emit_burst" /\ c.config.count = 0

C11_DegenerateStep ==
    \A id \in DOMAIN pools :
        (Stepped(id) /\ Degenerate(TheCall(id))) => pools'[id] = pools[id]

C11_ZeroCapacity ==
    \A c \in AllCalls :
        c.op # "set_gravity" =>
            /\ Apply(new(0), c) = new(0)
            /\ Render(new(0), c, <<>>) = <<>>

C11_DegenerateInputsAreNoOps == C11_ZeroCapacity /\ [][C11_DegenerateStep]_vars

(* C12: collide_rect(rect, restitution) is an operation of the pool: an    *)
(* alive particle that has crossed the rectangle's left edge gets its x    *)
(* position clamped to that edge and its x velocity replaced by the        *)
(* sign-flipped value scaled by restitution (0 stops it, 1 reflects it     *)
(* unchanged in magnitude); its y position and y velocity, every inert     *)
(* slot, the gravity and the generator state are left unchanged.           *)
CrossedLeft(p, rect) ==
    /\ rect[1] < p.pos[1] /\ p.pos[1] < rect[1] + rect[3]
    /\ rect[2] < p.pos[2] /\ p.pos[2] < rect[2] + rect[4]
    /\ \A d \in {rect[1] + rect[3] - p.pos[1], p.pos[2] - rect[2],
                  rect[2] + rect[4] - p.pos[2]} : p.pos[1] - rect[1] <= d

C12_CollideStep ==
    \A id \in DOMAIN pools :
        IsCall(id, "collide_rect") =>
            LET rect == TheCall(id).rect
                e    == TheCall(id).restitution
            IN  /\ pools'[id].gravity = pools[id].gravity
                /\ pools'[id].rng_state = pools[id].rng_state
                /\ \A i \in Slots(id) :
                      LET p == pools[id].particles[i]
                          q == pools'[id].particles[i]
                      IN  /\ ~p.alive => q = p
                          /\ (p.alive /\ CrossedLeft(p, rect)) =>
                                /\ q.pos = <<rect[1], p.pos[2]>>
                                /\ q.vel[2] = p.vel[2]
                                /\ q.vel[1] * p.vel[1] <= 0
                                /\ Abs(q.vel[1]) * e[2] <= Abs(p.vel[1]) * e[1]
                                /\ Abs(p.vel[1]) * e[1] < (Abs(q.vel[1]) + 1) * e[2]
                                /\ q = [p EXCEPT !.pos = q.pos, !.vel = q.vel]

C12_CollideRectLeftEdge == [][C12_CollideStep]_vars

C12_Witness ==
    /\ hist[1] # <<>>
    /\ Last(hist[1]).op = "collide_rect"
    /\ Last(hist[1]).restitution = <<1, 1>>
    /\ LET before == Replay(hist[1], Len(hist[1]) - 1)
       IN  \E i \in Slots(1) :
              /\ before.particles[i].alive
              /\ CrossedLeft(before.particles[i], Last(hist[1]).rect)
              /\ before.particles[i].vel[1] > 0
              /\ pools[1].particles[i].vel[1] = -before.particles[i].vel[1]
              /\ pools[1].particles[i].pos[1] = Last(hist[1]).rect[1]
              /\ pools[1].particles[i].pos[1] # before.particles[i].pos[1]

(* The sum of the dt of the update calls that end h (0 when h does not end *)
(* with an update), and the configurations h has emitted with.             *)
RECURSIVE TrailSum(_)
TrailSum(h) ==
    IF h = <<>> \/ Last(h).op # "update" THEN 0
    ELSE Last(h).dt + TrailSum(SubSeq(h, 1, Len(h) - 1))

Emitted(h) == {h[k].config : k \in {j \in DOMAIN h : h[j].op = "emit_burst"}}

C13_FillAndRefuse ==
    \A id \in DOMAIN pools :
        IsCall(id, "emit_burst") =>
            /\ (hist[id] = <<>> /\ TheCall(id).config.count = Len(pools[id].particles))
                    => InertSet(pools'[id]) = {}
            /\ InertSet(pools[id]) = {} => pools'[id] = pools[id]
            /\ (InertSet(pools[id]) # {} /\ TheCall(id).config.count >= 1)
                    => Created(id) # {}

(* C13 as stated: in a pool of capacity 4, an emit_burst of count 4 on the *)
(* fresh pool makes all four slots alive; an emit_burst while all four are *)
(* alive creates nothing; after update calls whose dt sum to more than     *)
(* life_min at least one slot is inert; and an emit_burst of count >= 1    *)
(* with an inert slot makes a slot alive.                                  *)
C13_ExpiryAsStated ==
    \A id \in DOMAIN pools :
        IsCall(id, "update") =>
            \A c \in Emitted(hist[id]) :
                TrailSum(hist'[id]) > c.life_min => InertSet(pools'[id]) # {}

C13_ExhaustionAndRecovery == [][C13_FillAndRefuse /\ C13_ExpiryAsStated]_vars

(* C13 amended: as above, but a slot is certain to be inert only after     *)
(* update calls (each dt >= 0) whose dt sum to at least life_max, and then *)
(* every slot is inert.                                                    *)
C13_ExpiryAmended ==
    \A id \in DOMAIN pools :
        (/\ IsCall(id, "update")
         /\ Emitted(hist[id]) # {}
         /\ \A c \in Emitted(hist[id]) : TrailSum(hist'[id]) >= c.life_max)
            => AliveSet(pools'[id]) = {}

C13_ExhaustionAndRecoveryAfterLifeMax ==
    [][C13_FillAndRefuse /\ C13_ExpiryAmended]_vars

C13_Witness ==
    /\ Len(hist[1]) = 4
    /\ Len(pools[1].particles) = 4
    /\ hist[1][1].op = "emit_burst" /\ hist[1][1].config.count = 4
    /\ hist[1][2].op = "emit_burst" /\ hist[1][2].config.count = 1
    /\ hist[1][3].op = "update" /\ hist[1][3].dt >= hist[1][1].config.life_max
    /\ hist[1][4].op = "emit_burst" /\ hist[1][4].config.count = 1
    /\ AliveSet(pools[1]) = {1}

(* The position, in the fills of a draw of self, of the fill of slot i.    *)
FillOf(self, i) == Cardinality({j \in AliveSet(self) : j <= i})

LastIs(id, op) == hist[id] # <<>> /\ Last(hist[id]).op = op

(* C14 as stated: draw renders an alive particle in exactly start_color    *)
(* when its remaining lifetime equals its total lifetime, and in exactly   *)
(* end_color in the last draw before the particle becomes inert.           *)
C14_DrawAtBirth ==
    \A id \in DOMAIN pools :
        IsCall(id, "draw") =>
            \A i \in AliveSet(pools[id]) :
                LET p == pools[id].particles[i]
                IN  p.life = p.life_total =>
                        canvas'[id][FillOf(pools[id], i)].color = p.start_color

C14_DrawBeforeDeath ==
    \A id \in DOMAIN pools :
        (IsCall(id, "update") /\ LastIs(id, "draw")) =>
            \A i \in AliveSet(pools[id]) \ AliveSet(pools'[id]) :
                canvas[id][FillOf(pools[id], i)].color = pools[id].particles[i].end_color

C14_ColorAtLifetimeBoundaries == [][C14_DrawAtBirth /\ C14_DrawBeforeDeath]_vars

(* C14 amended: with a total lifetime other than 0, draw renders exactly   *)
(* start_color when the remaining lifetime equals the total, exactly       *)
(* end_color when the fraction t = clamp(life / life_total, 0, 1) is 0,    *)
(* and in between each channel is s + (e - s) * (1 - t) truncated, a value *)
(* between the start and the end channel; a particle whose remaining and   *)
(* total lifetime are both 0 is rendered in (0, 0, 0, 0).                  *)
C14_Channel(c, s, e, p) ==
    LET T == Abs(p.life_total)
        L == Max(0, Min(T, IF p.life_total < 0 THEN -p.life ELSE p.life))
    IN  /\ c * T <= s * T + (e - s) * (T - L)
        /\ s * T + (e - s) * (T - L) < (c + 1) * T
        /\ Min(s, e) <= c /\ c <= Max(s, e)
        /\ L = T => c = s
        /\ L = 0 => c = e

C14_InterpolatedColor ==
    \A id \in DOMAIN pools :
        LastIs(id, "draw") =>
            \A i \in AliveSet(pools[id]) :
                LET p == pools[id].particles[i]
                    c == canvas[id][FillOf(pools[id], i)].color
                IN  /\ p.life_total # 0 =>
                          \A k \in 1..4 :
                              C14_Channel(c[k], p.start_color[k], p.end_color[k], p)
                    /\ (p.life_total = 0 /\ p.life = 0) => c = <<0, 0, 0, 0>>

C14_Witness ==
    /\ Len(hist[1]) = 3
    /\ hist[1][1].op = "emit_burst"
    /\ hist[1][2].op = "update" /\ hist[1][2].dt = 1
    /\ hist[1][3].op = "draw"
    /\ pools[1].particles[1].alive
    /\ pools[1].particles[1].life = 1
    /\ canvas[1][1].color # pools[1].particles[1].start_color
    /\ canvas[1][1].color # pools[1].particles[1].end_color

(* C15: on a pool of capacity 10000, after set_gravity(0, 500), one        *)
(* emit_burst at [160, 90] with count 64, base direction -pi/2 and spread  *)
(* pi/2 leaves exactly 64 particles alive, each at exactly [160, 90] with  *)
(* a y velocity <= 0, and every draw before the first update renders each  *)
(* of them in the start color.                                             *)
NoUpdateYet(h) == \A k \in DOMAIN h : h[k].op # "update"

C15_FirstBurst ==
    \A id \in DOMAIN pools :
        LET h    == hist[id]
            self == pools[id]
        IN  /\ Len(h) = 2 =>
                  /\ Len(self.particles) = 10000
                  /\ h[2].op = "emit_burst" /\ h[2].config.count = 64
                  /\ self.gravity = <<0, 500>>
                  /\ Cardinality(AliveSet(self)) = 64
                  /\ \A i \in AliveSet(self) :
                        /\ self.particles[i].pos = <<160, 90>>
                        /\ self.particles[i].vel[2] <= 0
            /\ (Len(h) >= 2 /\ NoUpdateYet(h) /\ Last(h).op = "draw") =>
                  /\ Len(canvas[id]) = 64
                  /\ \A k \in DOMAIN canvas[id] :
                        canvas[id][k].color = h[2].config.start_color

C15_Witness ==
    /\ Len(hist[1]) = 4
    /\ hist[1][2].op = "emit_burst" /\ hist[1][2].config.count = 64
    /\ hist[1][3].op = "apply_gravity_well"
    /\ hist[1][4].op = "draw"
    /\ Len(canvas[1]) = 64
    /\ canvas[1][64].color = <<255, 255, 0, 255>>
    /\ \E i \in AliveSet(pools[1]) : pools[1].particles[i].vel[2] < 0

(* C16: a new pool has exactly capacity slots, all inert, and gravity      *)
(* (0, 300); the number of slots equals the capacity after every sequence  *)
(* of emit_burst, update, apply_gravity_well, set_gravity and draw calls.  *)
C16_SlotCountIsCapacity ==
    \A id \in DOMAIN pools :
        /\ DOMAIN pools[id].particles = 1..Capacity
        /\ hist[id] = <<>> =>
              /\ \A i \in 1..Capacity : ~pools[id].particles[i].alive
              /\ pools[id].gravity = <<0, 300>>

C16_Witness ==
    /\ Len(hist[1]) = MaxCalls
    /\ \E k \in DOMAIN hist[1] :
          hist[1][k].op = "emit_burst" /\ hist[1][k].config.count > Capacity
    /\ \E k \in DOMAIN hist[1] : hist[1][k].op = "update"
    /\ \E k \in DOMAIN hist[1] : hist[1][k].op = "draw"
    /\ Len(pools[1].particles) = Capacity
    /\ InertSet(pools[1]) # {} /\ AliveSet(pools[1]) # {}

(* C17: no call changes an inert slot except an emit_burst that reuses it: *)
(* the update in which a particle dies still moves it and decrements its   *)
(* lifetime, and from then on position, velocity, lifetimes, size and      *)
(* colors keep those values through update, apply_gravity_well,            *)
(* set_gravity and draw calls.                                             *)
C17_InertStep ==
    \A id \in DOMAIN pools : \A i \in Slots(id) :
        LET p == pools[id].particles[i]
            q == pools'[id].particles[i]
        IN  /\ (Stepped(id) /\ ~p.alive /\ ~q.alive) => q = p
            /\ (Stepped(id) /\ ~p.alive /\ q.alive) => TheCall(id).op = "emit_burst"
            /\ (Stepped(id) /\ p.alive /\ ~q.alive) =>
                    /\ TheCall(id).op = "update"
                    /\ q.size = p.size /\ q.life_total = p.life_total
                    /\ q.start_color = p.start_color /\ q.end_color = p.end_color

C17_InertSlotsKeepStaleData == [][C17_InertStep]_vars

C17_Witness ==
    /\ Len(hist[1]) = 4
    /\ hist[1][1].op = "emit_burst"
    /\ hist[1][2].op = "update"
    /\ hist[1][3].op = "update" /\ hist[1][3].dt # 0
    /\ hist[1][4].op = "draw"
    /\ Replay(hist[1], 1).particles[1].alive
    /\ ~Replay(hist[1], 2).particles[1].alive
    /\ pools[1].particles[1] = Replay(hist[1], 2).particles[1]
    /\ pools[1].particles[1].pos # Replay(hist[1], 1).particles[1].pos
    /\ pools[1].particles[1].life_total > 0

(* C18: for every alive particle draw_additive issues draw's fill with the *)
(* r, g and b channels the interpolated value s + (e - s) * (1 - t) times  *)
(* 1.5, clamped to 255 and truncated, and the alpha channel draw's alpha;  *)
(* every channel is within 0..255.  (When life and life_total are both 0   *)
(* the interpolated value is NaN, whose clamp .min(255.0) is 255.)         *)
C18_Boosted(a, s, e, p) ==
    LET T == IF p.life_total = 0 THEN 1 ELSE Abs(p.life_total)
        L == IF p.life_total = 0 THEN (IF p.life > 0 THEN 1 ELSE 0)
             ELSE Max(0, Min(T, IF p.life_total < 0 THEN -p.life ELSE p.life))
        N == s * T + (e - s) * (T - L)
    IN  IF p.life_total = 0 /\ p.life = 0 THEN a = 255
        ELSE /\ a <= 255
             /\ a < 255 => (2 * a * T <= 3 * N /\ 3 * N < 2 * (a + 1) * T)
             /\ a = 255 => 3 * N >= 2 * 255 * T

C19_AxisStep(a) ==
    LET hi == CanvasSize[a] - body.size
        m  == body'.moved[a]
    IN  /\ 0 <= body'.pos[a] /\ body'.pos[a] <= hi
        /\ m <= 0 => (body'.pos[a] = 0 /\ body'.vel[a] = Abs(body.vel[a]))
        /\ m >= hi => (body'.pos[a] = hi /\ body'.vel[a] = -Abs(body.vel[a]))
        /\ (0 < m /\ m < hi) => (body'.pos[a] = m /\ body'.vel[a] = body.vel[a])

C19_BounceStep == body' # body => (C19_AxisStep(1) /\ C19_AxisStep(2))

C19_BodyStaysInBounds == [][C19_BounceStep]_vars

C19_Witness ==
    /\ body.host = "particles"
    /\ body.frames = 4
    /\ body.moved[1] < 0 /\ body.pos[1] = 0 /\ body.vel[1] = 4
    /\ body.moved[2] > CanvasSize[2] - body.size
    /\ body.pos[2] = CanvasSize[2] - body.size /\ body.vel[2] = -3

(* C20: set_gravity(gx, gy) sets the gravity to (gx, gy) and changes       *)
(* nothing else (no slot, not the generator state); no other call changes  *)
(* the gravity; and every update adds dt times the pair of the most recent *)
(* set_gravity (the default (0, 300) before the first) to the velocity of  *)
(* each alive particle.                                                    *)
RECURSIVE LastGravity(_)
LastGravity(h) ==
    IF h = <<>> THEN <<0, 300>>
    ELSE IF Last(h).op = "set_gravity" THEN <<Last(h).gx, Last(h).gy>>
    ELSE LastGravity(SubSeq(h, 1, Len(h) - 1))

C20_GravityStep ==
    \A id \in DOMAIN pools :
        Stepped(id) =>
            LET c == TheCall(id)
                g == LastGravity(hist[id])
            IN  /\ c.op = "set_gravity" =>
                      /\ pools'[id].gravity = <<c.gx, c.gy>>
                      /\ pools'[id].particles = pools[id].particles
                      /\ pools'[id].rng_state = pools[id].rng_state
                /\ c.op # "set_gravity" => pools'[id].gravity = pools[id].gravity
                /\ c.op = "update" =>
                      \A i \in AliveSet(pools[id]) :
                          pools'[id].particles[i].vel
                              = <<pools[id].particles[i].vel[1] + g[1] * c.dt,
                                  pools[id].particles[i].vel[2] + g[2] * c.dt>>

C20_SetGravityReplacesForce == [][C20_GravityStep]_vars

C20_Witness ==
    /\ Len(hist[1]) = 4
    /\ hist[1][1].op = "set_gravity" /\ hist[1][1].gx = 0
    /\ hist[1][2].op = "emit_burst"
    /\ hist[1][3].op = "set_gravity" /\ hist[1][3].gx = 1
    /\ hist[1][4].op = "update" /\ hist[1][4].dt = 2
    /\ pools[1].gravity = <<1, 0>>
    /\ \E i \in AliveSet(pools[1]) :
          pools[1].particles[i].vel
              = <<Replay(hist[1], 2).particles[i].vel[1] + 2,
                  Replay(hist[1], 2).particles[i].vel[2]>>

(* ------------------------------- C23 ----------------------------------- *)

(* i is an integer nearest to the fraction x: |i - x| <= 1/2.              *)
Nearest(i, x) == 2 * Abs(i * x[2] - x[1]) <= x[2]

(* The integer size that the claim gives for the size s.                   *)
C23_Size(i, s) ==
    /\ i >= 1
    /\ s[1] < s[2] => i = 1
    /\ s[1] >= s[2] => Nearest(i, s)

(* C23: fill_rect_f32(x, y, w, h, color) calls the integer fill_rect       *)
(* exactly once, with x and y rounded to the nearest integer, with width   *)
(* and height at least 1 (a size below 1, zero and negative sizes          *)
(* included, becomes 1; a size of 1 or more is rounded), and with the      *)
(* color unchanged.                                                         *)
C23_FillRectRoundsAndClamps ==
    (hist[1] # <<>> /\ Last(hist[1]).op = "fill_rect_f32") =>
        LET c == Last(hist[1])
        IN  /\ Len(canvas[1]) = 1
            /\ Nearest(canvas[1][1].x, c.x)
            /\ Nearest(canvas[1][1].y, c.y)
            /\ C23_Size(canvas[1][1].w, c.w)
            /\ C23_Size(canvas[1][1].h, c.h)
            /\ canvas[1][1].color = c.color

(* x = -1.25, y = 0.5, w = -1.0 and h = 3.5 are filled as the integer      *)
(* rectangle (-1, 1, 1, 4).                                                 *)
C23_Witness ==
    /\ hist[1] # <<>>
    /\ Last(hist[1]).op = "fill_rect_f32"
    /\ Last(hist[1]).x = <<-5, 4>>
    /\ Last(hist[1]).y = <<2, 4>>
    /\ Last(hist[1]).w = <<-4, 4>>
    /\ Last(hist[1]).h = <<14, 4>>
    /\ canvas[1] = <<[x |-> -1, y |-> 1, w |-> 1, h |-> 4, color |-> Last(hist[1]).color]>>

(* ------------------------------- C24 ----------------------------------- *)

(* C24: an emit_burst leaves every particle that was alive before the call *)
(* unchanged, writes only slots that were inert, and writes them first-fit: *)
(* the slots it turns alive are the lowest inert ones, so a slot j is used *)
(* only when every slot below j is alive.                                  *)
C24_EmitStep ==
    \A id \in DOMAIN pools :
        IsCall(id, "emit_burst") =>
            /\ \A i \in AliveSet(pools[id]) :
                   pools'[id].particles[i] = pools[id].particles[i]
            /\ \A i \in Slots(id) :
                   pools'[id].particles[i] # pools[id].particles[i] => i \in Created(id)
            /\ Created(id) = Lowest(InertSet(pools[id]), Cardinality(Created(id)))
            /\ \A j \in Created(id) : \A i \in 1 .. (j - 1) : pools'[id].particles[i].alive

C24_FirstFitAllocation == [][C24_EmitStep]_vars

(* Slot 2 has died while slot 1 is still alive; the next emit_burst, asked *)
(* for more particles than there is room, takes slot 2 again and leaves    *)
(* the particle of slot 1 as it was.                                       *)
C24_Witness ==
    /\ Len(hist[1]) = 4
    /\ hist[1][4].op = "emit_burst"
    /\ hist[1][4].config.count = Capacity + 1
    /\ Replay(hist[1], 3).particles[1].alive
    /\ Replay(hist[1], 3).particles[2].life_total = 0
    /\ ~Replay(hist[1], 3).particles[2].alive
    /\ pools[1].particles[2].alive
    /\ pools[1].particles[1] = Replay(hist[1], 3).particles[1]

(* ------------------------------- C25 ----------------------------------- *)

(* C25: update(dt) gives every alive particle velocity + gravity * dt,     *)
(* then position + (the new velocity) * dt, then remaining lifetime - dt,  *)
(* and marks the slot inert exactly when the new remaining lifetime is     *)
(* <= 0; a particle that dies in the call is moved by it all the same;     *)
(* total lifetime, size and colors are left as they were.                  *)
C25_UpdateStep ==
    \A id \in DOMAIN pools : \A i \in Slots(id) :
        LET p  == pools[id].particles[i]
            q  == pools'[id].particles[i]
            g  == pools[id].gravity
            dt == TheCall(id).dt
        IN  (IsCall(id, "update") /\ p.alive) =>
                /\ q.vel = <<p.vel[1] + g[1] * dt, p.vel[2] + g[2] * dt>>
                /\ q.pos = <<p.pos[1] + q.vel[1] * dt, p.pos[2] + q.vel[2] * dt>>
                /\ q.life = p.life - dt
                /\ q.alive <=> ~(q.life <= 0)
                /\ q.life_total = p.life_total
                /\ q.size = p.size
                /\ q.start_color = p.start_color
                /\ q.end_color = p.end_color

C25_UpdateIntegratesInOrder == [][C25_UpdateStep]_vars

(* Under a gravity that is not zero, an update with dt = 2 kills the       *)
(* particle of slot 1 and has moved it by the new velocity, which differs  *)
(* from the old one.                                                       *)
C25_Witness ==
    /\ Len(hist[1]) = 2
    /\ hist[1][1].op = "emit_burst"
    /\ hist[1][2].op = "update" /\ hist[1][2].dt = 2
    /\ pools[1].gravity[2] # 0
    /\ Replay(hist[1], 1).particles[1].alive
    /\ ~pools[1].particles[1].alive
    /\ pools[1].particles[1].vel # Replay(hist[1], 1).particles[1].vel
    /\ pools[1].particles[1].pos[2] =
           Replay(hist[1], 1).particles[1].pos[2] + pools[1].particles[1].vel[2] * 2

(* ------------------------------- C26 ----------------------------------- *)

Dist2(p, center) ==
    (center[1] - p.pos[1]) * (center[1] - p.pos[1])
        + (center[2] - p.pos[2]) * (center[2] - p.pos[2])

(* The particle lies within the radius of the centre: no particle does     *)
(* when the radius is negative.                                            *)
Within(p, center, radius) == radius >= 0 /\ Dist2(p, center) <= radius * radius

(* C26: apply_gravity_well changes nothing but velocities, and only those  *)
(* of alive particles that lie within the radius and not exactly at the    *)
(* centre: positions, remaining and total lifetimes, sizes, colors,        *)
(* liveness and the global gravity stay as they were, and a particle       *)
(* exactly at the centre or exactly on the radius boundary keeps its       *)
(* velocity.                                                               *)
C26_WellStep ==
    \A id \in DOMAIN pools :
        IsCall(id, "apply_gravity_well") =>
            /\ pools'[id].gravity = pools[id].gravity
            /\ \A i \in Slots(id) :
                   LET p == pools[id].particles[i]
                       q == pools'[id].particles[i]
                       c == TheCall(id)
                   IN  /\ q = [p EXCEPT !.vel = q.vel]
                       /\ q.vel # p.vel =>
                              /\ p.alive
                              /\ Within(p, c.center, c.radius)
                              /\ Dist2(p, c.center) # 0
                       /\ (Dist2(p, c.center) = 0
                              \/ Dist2(p, c.center) = c.radius * c.radius) =>
                              q.vel = p.vel

C26_WellChangesOnlyVelocitiesWithinRadius == [][C26_WellStep]_vars

(* ------------------------------- C27 ----------------------------------- *)

(* The j-th smallest element of the set S of slots.                        *)
Nth(S, j) == CHOOSE i \in S : Cardinality({x \in S : x < i}) = j - 1

(* The positions in the history h of the emit_burst calls.                 *)
Bursts(h) == {k \in DOMAIN h : h[k].op = "emit_burst"}

(* The random part of a particle: direction and speed (as the velocity),   *)
(* lifetime and size.                                                      *)
Drawn(p) == <<p.vel, p.life, p.life_total, p.size>>

(* C27: update, apply_gravity_well, set_gravity, draw and draw_additive    *)
(* leave the generator state as it was; hence the j-th particle created by *)
(* the second of two bursts gets the same direction, speed, lifetime and   *)
(* size whatever calls of those five were made before and between the two  *)
(* bursts: the same as when the two bursts follow each other directly on a *)
(* fresh pool.                                                             *)
C27_Step ==
    \A id \in DOMAIN pools :
        Stepped(id) =>
            /\ TheCall(id).op # "emit_burst" =>
                   pools'[id].rng_state = pools[id].rng_state
            /\ (TheCall(id).op = "emit_burst" /\ Cardinality(Bursts(hist[id])) = 1) =>
                   LET k     == CHOOSE x \in Bursts(hist[id]) : TRUE
                       first == Apply(new(Capacity), hist[id][k])
                       both  == Apply(first, TheCall(id))
                       bare  == AliveSet(both) \ AliveSet(first)
                       n     == Min(Cardinality(Created(id)), Cardinality(bare))
                   IN  \A j \in 1 .. n :
                           Drawn(pools'[id].particles[Nth(Created(id), j)])
                               = Drawn(both.particles[Nth(bare, j)])

C27_OnlyEmitBurstAdvancesGenerator == [][C27_Step]_vars

(* An update and a gravity well between two bursts of one particle have    *)
(* changed the first particle, and the second particle is the one that two *)
(* bursts in a row create.                                                 *)
C27_Witness ==
    /\ Len(hist[1]) = 4
    /\ hist[1][1].op = "emit_burst" /\ hist[1][1].config.count = 1
    /\ hist[1][2].op = "update" /\ hist[1][2].dt = 1
    /\ hist[1][3].op = "apply_gravity_well"
    /\ hist[1][4].op = "emit_burst" /\ hist[1][4].config.count = 1
    /\ pools[1].particles[1].alive
    /\ pools[1].particles[1].vel # Replay(hist[1], 1).particles[1].vel
    /\ pools[1].particles[2].alive
    /\ pools[1].particles[2] =
           Apply(Replay(hist[1], 1), hist[1][4]).particles[2]
    /\ pools[1].rng_state = LcgSteps(SEED, 8)

(* ------------------------------- C28 ----------------------------------- *)

(* The history h has an emit_burst that no update follows.                 *)
BurstSinceUpdate(h) ==
    \E k \in DOMAIN h :
        /\ h[k].op = "emit_burst"
        /\ \A j \in DOMAIN h : j > k => h[j].op # "update"

(* Every emitter used in h draws its lifetimes from a positive range.      *)
PositiveLifetimes(h) == \A c \in Emitted(h) : 0 < c.life_min /\ c.life_min <= c.life_max

(* The remaining and the total lifetime are positive and the lifetime     *)
(* fraction is a number.                                                   *)
C28_Conclusion(p) == p.life > 0 /\ p.life_total > 0 /\ life_fraction(p)[2] # 0

(* C28 (as stated): right after an update every alive slot has remaining   *)
(* lifetime > 0; an alive slot with remaining lifetime <= 0 or total       *)
(* lifetime <= 0 exists only between an emit_burst that drew a             *)
(* non-positive lifetime and the next update; with life_min > 0 and        *)
(* dt >= 0 every alive particle has remaining and total lifetime > 0 and a *)
(* well defined lifetime fraction.                                         *)
C28_AliveLifetimesAsStated ==
    \A id \in DOMAIN pools : \A i \in AliveSet(pools[id]) :
        LET p == pools[id].particles[i]
        IN  /\ LastIs(id, "update") => p.life > 0
            /\ (p.life <= 0 \/ p.life_total <= 0) =>
                   (p.life_total <= 0 /\ BurstSinceUpdate(hist[id]))
            /\ (NoNegativeDt(hist[id]) /\ \A c \in Emitted(hist[id]) : c.life_min > 0) =>
                   C28_Conclusion(p)

(* C28 (amended): right after an update every alive slot has remaining     *)
(* lifetime > 0; an alive slot with remaining lifetime <= 0 exists only    *)
(* between an emit_burst that drew a non-positive lifetime and the next    *)
(* update, and so does, as long as no dt is negative, an alive slot with   *)
(* total lifetime <= 0; with 0 < life_min <= life_max and dt >= 0 every    *)
(* alive particle has remaining and total lifetime > 0 and a well defined  *)
(* lifetime fraction.                                                      *)
C28_AliveLifetimesPositive ==
    \A id \in DOMAIN pools : \A i \in AliveSet(pools[id]) :
        LET p == pools[id].particles[i]
        IN  /\ LastIs(id, "update") => p.life > 0
            /\ p.life <= 0 => (p.life_total <= 0 /\ BurstSinceUpdate(hist[id]))
            /\ (NoNegativeDt(hist[id]) /\ p.life_total <= 0) => BurstSinceUpdate(hist[id])
            /\ (NoNegativeDt(hist[id]) /\ PositiveLifetimes(hist[id])) => C28_Conclusion(p)

(* After an update that slot 1 survived with a positive remaining          *)
(* lifetime, a burst of zero lifetime has put an alive particle with       *)
(* remaining and total lifetime 0 into slot 2.                             *)
C28_Witness ==
    /\ Len(hist[1]) = 3
    /\ hist[1][1].op = "emit_burst" /\ hist[1][1].config.life_min > 0
    /\ hist[1][2].op = "update" /\ hist[1][2].dt > 0
    /\ hist[1][3].op = "emit_burst" /\ hist[1][3].config.life_max = 0
    /\ pools[1].particles[1].alive /\ pools[1].particles[1].life > 0
    /\ pools[1].particles[2].alive /\ pools[1].particles[2].life = 0
    /\ pools[1].particles[2].life_total = 0

(* ------------------------------- C29 ----------------------------------- *)

(* C29: draw and draw_additive leave the pool as it was and issue one fill *)
(* per alive slot and none for an inert one, in increasing slot order;     *)
(* the fill of a particle is the one fill_rect_f32 makes for a square of   *)
(* side size with its top-left corner at the particle's position.          *)
C29_DrawStep ==
    \A id \in DOMAIN pools :
        (IsCall(id, "draw") \/ IsCall(id, "draw_additive")) =>
            /\ pools'[id] = pools[id]
            /\ Len(canvas'[id]) = Cardinality(AliveSet(pools[id]))
            /\ \A i \in AliveSet(pools[id]) :
                   LET p == pools[id].particles[i]
                       f == canvas'[id][FillOf(pools[id], i)]
                   IN  /\ <<f>> = fill_rect_f32(F(p.pos[1]), F(p.pos[2]),
                                                F(p.size), F(p.size), f.color)
                       /\ f.x = p.pos[1] /\ f.y = p.pos[2]
                       /\ f.w = f.h
                       /\ p.size >= 1 => f.w = p.size

C29_DrawIsReadOnlyOneFillPerAlive == [][C29_DrawStep]_vars

(* Two alive particles at different positions are drawn as two different   *)
(* fills, the one of slot 1 first.                                         *)
C29_Witness ==
    /\ Len(hist[1]) = 3
    /\ hist[1][1].op = "emit_burst"
    /\ hist[1][2].op = "update"
    /\ hist[1][3].op = "draw"
    /\ AliveSet(pools[1]) = {1, 2}
    /\ pools[1].particles[1].pos # pools[1].particles[2].pos
    /\ Len(canvas[1]) = 2
    /\ canvas[1][1].x = pools[1].particles[1].pos[1]
    /\ canvas[1][1].y = pools[1].particles[1].pos[2]
    /\ canvas[1][2].x = pools[1].particles[2].pos[1]
    /\ canvas[1][2].y = pools[1].particles[2].pos[2]

(* ------------------------------- C30 ----------------------------------- *)

(* The positions in h, among the first n, of the keyboard events of key k. *)
KeyEvents(h, n, k) ==
    {j \in 1 .. n : /\ h[j].op = "handle_window_event"
                    /\ h[j].event.kind = "KeyboardInput"
                    /\ h[j].event.virtual_keycode = k}

(* Key k is down after the first n calls of h: its latest event is a press. *)
DownAfter(h, n, k) ==
    LET E == KeyEvents(h, n, k)
    IN  E # {} /\ h[CHOOSE j \in E : \A i \in E : i <= j].event.state = "Pressed"

BeginFrames(h) == {j \in DOMAIN h : h[j].op = "begin_frame"}

(* The position of the latest begin_frame of h.                            *)
LastBegin(h) == CHOOSE j \in BeginFrames(h) : \A i \in BeginFrames(h) : i <= j

(* Key k went down in an earlier frame and has not been released since.    *)
HeldAcrossFrames(h, k) ==
    \E j \in KeyEvents(h, LastBegin(h), k) :
        /\ h[j].event.state = "Pressed"
        /\ \A i \in KeyEvents(h, Len(h), k) : i > j => h[i].event.state = "Pressed"

(* The Input after the first n calls of h.                                 *)
RECURSIVE InputAfter(_, _)
InputAfter(h, n) ==
    IF n = 0 THEN AppInput
    ELSE IF h[n].op = "begin_frame" THEN begin_frame(InputAfter(h, n - 1))
    ELSE handle_window_event(InputAfter(h, n - 1), h[n].event)

(* C30: once begin_frame has run, just_pressed(k) holds exactly when k is  *)
(* down after the events so far and was up when the latest begin_frame     *)
(* ran, just_released(k) exactly when k is up now and was down then; a key *)
(* held since an earlier frame, repeated Pressed events included, is not   *)
(* just_pressed; right after a begin_frame no key is just_pressed or       *)
(* just_released.                                                          *)
C30_EdgeDetection ==
    LET h == hist[1]
    IN  BeginFrames(h) # {} =>
            \A k \in InputKeys :
                /\ just_pressed(app.input, k) <=>
                       (DownAfter(h, Len(h), k) /\ ~DownAfter(h, LastBegin(h), k))
                /\ just_released(app.input, k) <=>
                       (~DownAfter(h, Len(h), k) /\ DownAfter(h, LastBegin(h), k))
                /\ HeldAcrossFrames(h, k) => ~just_pressed(app.input, k)
                /\ Last(h).op = "begin_frame" =>
                       (~just_pressed(app.input, k) /\ ~just_released(app.input, k))

(* F goes down in the first frame, where it is just_pressed; in the second *)
(* frame the press is repeated and F is pressed but not just_pressed.      *)
C30_Witness ==
    /\ Len(hist[1]) = 4
    /\ hist[1][1].op = "begin_frame"
    /\ hist[1][3].op = "begin_frame"
    /\ hist[1][4].op = "handle_window_event"
    /\ hist[1][4].event = [kind |-> "KeyboardInput", virtual_keycode |-> "F",
                           state |-> "Pressed"]
    /\ just_pressed(InputAfter(hist[1], 2), "F")
    /\ pressed(app.input, "F")
    /\ ~just_pressed(app.input, "F")

(* ------------------------------- C21 ----------------------------------- *)

(* The positions in the frame's trace h of the calls of the given kinds.   *)
At(h, ops) == {j \in DOMAIN h : h[j].op \in ops}

(* Every call of the kinds first comes before every call of the kinds      *)
(* then.                                                                   *)
Precedes(h, first, then) == \A i \in At(h, first), j \in At(h, then) : i < j

(* C21: in every frame of the host the optional apply_gravity_well comes   *)
(* before update, update before collide_rect, collide_rect before draw or  *)
(* draw_additive, and every emit_burst before update; a frame that is not  *)
(* cut short by quit makes exactly one update, one collide_rect and one    *)
(* draw or draw_additive, and at most one apply_gravity_well.              *)
C21_FrameOrder ==
    LET h == hist[1]
    IN  /\ Precedes(h, {"apply_gravity_well"}, {"update"})
        /\ Precedes(h, {"update"}, {"collide_rect"})
        /\ Precedes(h, {"collide_rect"}, {"draw", "draw_additive"})
        /\ Precedes(h, {"emit_burst"}, {"update"})
        /\ h # <<>> =>
               /\ Cardinality(At(h, {"update"})) = 1
               /\ Cardinality(At(h, {"collide_rect"})) = 1
               /\ Cardinality(At(h, {"draw", "draw_additive"})) = 1
               /\ Cardinality(At(h, {"apply_gravity_well"})) <= 1

(* A frame with the mouse emitter, the fountain and the gravity well on.   *)
C21_Witness ==
    /\ Len(hist[1]) = 6
    /\ hist[1][1].op = "emit_burst" /\ hist[1][1].config = SparkleConfig
    /\ hist[1][2].op = "emit_burst" /\ hist[1][2].config = FountainConfig
    /\ hist[1][3].op = "apply_gravity_well"
    /\ hist[1][4].op = "update"
    /\ hist[1][5].op = "collide_rect"
    /\ hist[1][6].op = "draw"
    /\ AliveSet(pools[1]) # {}

(* ------------------------------- C22 ----------------------------------- *)

(* The step is a frame: the MainEventsCleared arm has run.                 *)
FrameStep == app.phase = "WindowEvent" /\ app'.phase = "NewEvents"

(* C22: in the frame in which present() fails the loop asks for exit, the  *)
(* pool having drawn without an error (render returned Ok) before; once    *)
(* exit is asked for it stays asked for and no further iteration begins.   *)
C22_Step ==
    /\ (FrameStep /\ app'.present = "Err") =>
           /\ app'.control_flow = "Exit"
           /\ app'.render = "Ok"
           /\ At(hist'[1], {"draw", "draw_additive"}) # {}
    /\ (FrameStep /\ hist'[1] # <<>>) => app'.render = "Ok"
    /\ app.control_flow = "Exit" =>
           /\ app'.control_flow = "Exit"
           /\ ~(app.phase = "NewEvents" /\ app'.phase = "WindowEvent")

C22_PresentFailureEndsSession == [][C22_Step]_vars

(* present() has failed in the second frame, after a draw of alive         *)
(* particles, and the loop has asked for exit.                             *)
C22_Witness ==
    /\ app.present = "Err"
    /\ app.control_flow = "Exit"
    /\ app.phase = "NewEvents"
    /\ body.frames = 2
    /\ At(hist[1], {"draw"}) # {}
    /\ Len(canvas[1]) > 2

(* ------------------------------- C31 ----------------------------------- *)

(* The positions in h, among the first n, of the events of the left mouse  *)
(* button.                                                                 *)
LeftEvents(h, n) ==
    {j \in 1 .. n : /\ h[j].op = "handle_window_event"
                    /\ h[j].event.kind = "MouseInput"
                    /\ h[j].event.button = "Left"}

(* The left button is down after the first n calls of h.                   *)
LeftDownAfter(h, n) ==
    LET E == LeftEvents(h, n)
    IN  E # {} /\ h[CHOOSE j \in E : \A i \in E : i <= j].event.state = "Pressed"

(* The left button was down at the latest begin_frame of h and is up now.  *)
ReleasedInFrame(h) ==
    /\ BeginFrames(h) # {}
    /\ LeftDownAfter(h, LastBegin(h))
    /\ ~LeftDownAfter(h, Len(h))

(* p lies in the rectangle r = <<x, y, w, h>>, edges included.             *)
Inside(r, p) == p[1] \in r[1] .. (r[1] + r[3]) /\ p[2] \in r[2] .. (r[2] + r[4])

Clicks(h) == {j \in DOMAIN h : h[j].op = "button" /\ h[j].clicked}

C31_ButtonStep ==
    (hist'[1] # hist[1] /\ Last(hist'[1]).op = "button") =>
        LET c == Last(hist'[1])
            h == hist[1]
            p == app.input.mouse_pos
        IN  /\ c.clicked <=> (Inside(c.rect, p) /\ ReleasedInFrame(h))
            /\ LeftDownAfter(h, Len(h)) => ~c.clicked
            /\ ~Inside(c.rect, p) => ~c.clicked

(* Two clicks reported in different frames are separated by a release.     *)
C31_OneFramePerRelease ==
    LET h == hist[1]
    IN  \A i, j \in Clicks(h) :
            (\E b \in BeginFrames(h) : i < b /\ b < j) =>
                \E k \in LeftEvents(h, j) : i < k /\ h[k].event.state = "Released"

(* C31: Ui::button returns true exactly when the mouse position is inside  *)
(* the button's rectangle, edges included, and the left mouse button was   *)
(* down at the latest begin_frame and is up now; a press still held and a  *)
(* release outside the rectangle report no click; one release reports a    *)
(* click in at most one frame.                                             *)
C31_ButtonClicksOnReleaseInside ==
    [](C31_OneFramePerRelease) /\ [][C31_ButtonStep]_vars

(* The left button is pressed, held over a begin_frame and released with   *)
(* the cursor on the corner of the Clear button: the button reports the    *)
(* click, and in the next frame it reports none.                           *)
C31_Witness ==
    /\ Len(hist[1]) = 6
    /\ hist[1][1].op = "handle_window_event" /\ hist[1][1].event.state = "Pressed"
    /\ hist[1][2].op = "begin_frame"
    /\ hist[1][3].op = "handle_window_event" /\ hist[1][3].event.state = "Released"
    /\ hist[1][4].op = "button" /\ hist[1][4].clicked
    /\ hist[1][5].op = "begin_frame"
    /\ hist[1][6].op = "button" /\ ~hist[1][6].clicked
    /\ app.input.mouse_pos = <<118, 138>>
    /\ hist[1][6].ui = [hot |-> 2, active |-> "None", next_id |-> 3]
    /\ canvas[1] = <<[x |-> 7, y |-> 115, w |-> 112, h |-> 24,
                      color |-> <<80, 80, 80, 220>>],
                     [x |-> 8, y |-> 116, w |-> 110, h |-> 22,
                      color |-> <<235, 235, 235, 210>>]>>

(* ------------------------------- C32 ----------------------------------- *)

(* A step of the playground's loop that is a frame.                        *)
C32_IsFrame == app'.frames = app.frames + 1

C32_AccInRange == app.acc >= 0 /\ app.acc < app.target

C32_FrameStep ==
    C32_IsFrame =>
        LET added == Min(app'.elapsed, 100 * 1000000)
            total == app.acc + added
            n     == app'.steps
        IN  /\ n * app.target <= total
            /\ total < (n + 1) * app.target
            /\ body'.frames = body.frames + n
            /\ app'.acc = total - n * app.target
            /\ app'.acc >= 0 /\ app'.acc < app.target
            /\ n <= 6

(* C32: each frame of the playground adds the elapsed time, clamped to at  *)
(* most 100 ms, to the accumulator and runs one simulation step per whole  *)
(* target interval in it; after every frame the accumulator is at least 0  *)
(* and less than the target interval, and no frame runs more than 6 steps. *)
C32_FixedTimestepLoop == [](C32_AccInRange) /\ [][C32_FrameStep]_vars

(* After frames that left 16666665 ns in the accumulator, a frame 2 s      *)
(* after the previous one runs 6 steps, with the target interval of        *)
(* 16666667 ns.                                                            *)
C32_Witness ==
    /\ app.target = 16666667
    /\ app.elapsed = 2000000000
    /\ app.steps = 6
    /\ app.acc = 16666663
    /\ body.frames >= 6
    /\ Len(canvas[1]) = 1

====
